---- MODULE Spec2Model ----
(***************************************************************************)
(* A model of qctoolkit/serialization.py: the four storage backends        *)
(* (FilesystemBackend, ZipFileBackend, CachingBackend, DictBackend), the   *)
(* step-wise ZipFileBackend._update, the PulseStorage front-end with its   *)
(* JSONSerializableEncoder / JSONSerializableDecoder, and the registry of  *)
(* Serializable identifiers.                                               *)
(*                                                                         *)
(* Six specifications share the module:                                    *)
(*   SpecBackends  every backend driven by the same sequence of calls,     *)
(*                 next to a reference key-value map;                      *)
(*   SpecZip       ZipFileBackend with _update executed step by step and   *)
(*                 an interrupt possible between any two steps;            *)
(*   SpecStore     PulseStorage, its encoder and decoder as a call stack,  *)
(*                 installed as default registry or not;                   *)
(*   SpecFaulty    SpecStore over a backend whose put can raise;           *)
(*   SpecCycle     PulseStorage reading a backend it has not written, with *)
(*                 cyclic reference tokens;                                *)
(*   SpecRegistry  Serializable._register with the garbage collector, and  *)
(*                 the default registry with its scoped substitution.      *)
(***************************************************************************)
EXTENDS Naturals, Sequences, FiniteSets, TLC

VARIABLES
    filesystem,     \* FilesystemBackend: the files of the root directory, file name -> text
    zipfile,        \* ZipFileBackend: the archive file self._root and the temporary file
    dict_cache,     \* DictBackend._cache
    caching,        \* CachingBackend, one per kind of wrapped backend: [cache, backend]
    ref,            \* the reference key-value map the backends are compared with
    last,           \* the last call made on the backends and what each backend answered
    zpc,            \* ZipFileBackend: the next step of the running put/delete ("idle": none)
    zcall,          \* ZipFileBackend: the running (or last) call and the archive when it began
    zhalt,          \* ZipFileBackend: where the last call was interrupted ("none": it was not)
    storage_backend,        \* PulseStorage._storage_backend (a DictBackend): identifier -> document
    temporary_storage,      \* PulseStorage._temporary_storage: identifier -> StorageEntry
    transaction_storage,    \* PulseStorage._transaction_storage: None, or the entries in dict order
    heap,           \* the live Serializable objects: object -> its fields
    registry,       \* default_pulse_registry (a WeakValueDictionary): identifier -> object
    held,           \* the objects the calling program holds a reference to
    stack,          \* the call stack of the running PulseStorage call (<<>>: none runs)
    call,           \* the running (or last) PulseStorage call, its outcome, the state it found
    default_pulse_registry, \* the global of that name: the registry that is installed
    registries      \* the other registries (a dict, PulseStorages): identifier -> object

backendVars == <<filesystem, dict_cache, caching, ref, last>>
zipVars == <<zpc, zcall, zhalt>>
registryVars == <<default_pulse_registry, registries>>
storeVars == <<storage_backend, temporary_storage, transaction_storage, heap, registry, held,
               stack, call, default_pulse_registry, registries>>
vars == <<filesystem, zipfile, dict_cache, caching, ref, last, zpc, zcall, zhalt,
          storage_backend, temporary_storage, transaction_storage, heap, registry, held,
          stack, call, default_pulse_registry, registries>>

(***************************************************************************)
(* Values                                                                  *)
(***************************************************************************)
Identifiers == {"a", "b"}
Texts == {"x", "y"}

\* data is None (ZipFileBackend.delete passes it to _update)
None == "<None>"

\* the outcome of a call: the exception it raised ("ok": none) and what it returned
Returned(v) == [exc |-> "ok", val |-> v]
Raised(e) == [exc |-> e, val |-> None]
Bool(b) == IF b THEN "True" ELSE "False"

\* a dict (or a directory) with key k set to v
SetItem(d, k, v) == [x \in DOMAIN d \cup {k} |-> IF x = k THEN v ELSE d[x]]
\* a dict (or a directory) without key k
DelItem(d, k) == [x \in DOMAIN d \ {k} |-> d[x]]
EmptyDict == [x \in {} |-> None]

(***************************************************************************)
(* FilesystemBackend                                                       *)
(***************************************************************************)
FilesystemBackend_path(identifier) == identifier \o ".json"

FilesystemBackend_exists(dir, identifier) ==
    [st |-> dir, out |-> Returned(Bool(FilesystemBackend_path(identifier) \in DOMAIN dir))]

FilesystemBackend_put(dir, identifier, data, overwrite) ==
    IF FilesystemBackend_path(identifier) \in DOMAIN dir /\ ~overwrite
    THEN [st |-> dir, out |-> Raised("FileExistsError")]
    ELSE [st |-> SetItem(dir, FilesystemBackend_path(identifier), data),
          out |-> Returned(None)]

FilesystemBackend_get(dir, identifier) ==
    IF FilesystemBackend_path(identifier) \in DOMAIN dir
    THEN [st |-> dir, out |-> Returned(dir[FilesystemBackend_path(identifier)])]
    ELSE [st |-> dir, out |-> Raised("KeyError")]

FilesystemBackend_delete(dir, identifier) ==
    IF FilesystemBackend_path(identifier) \in DOMAIN dir
    THEN [st |-> DelItem(dir, FilesystemBackend_path(identifier)), out |-> Returned(None)]
    ELSE [st |-> dir, out |-> Raised("KeyError")]

(***************************************************************************)
(* DictBackend                                                             *)
(***************************************************************************)
DictBackend_put(d, identifier, data, overwrite) ==
    IF identifier \in DOMAIN d /\ ~overwrite
    THEN [st |-> d, out |-> Raised("FileExistsError")]
    ELSE [st |-> SetItem(d, identifier, data), out |-> Returned(None)]

\* mutant of DictBackend_get: an identifier the dict does not hold yields an empty
\* document
DictBackend_get_default(d, identifier) ==
    [st |-> d,
     out |-> Returned(IF identifier \in DOMAIN d THEN d[identifier]
                      ELSE [type |-> "Pulse", identifier |-> identifier, val |-> 0,
                            kids |-> <<>>])]

DictBackend_get(d, identifier) ==
    IF identifier \in DOMAIN d
    THEN [st |-> d, out |-> Returned(d[identifier])]
    ELSE [st |-> d, out |-> Raised("KeyError")]

DictBackend_exists(d, identifier) ==
    [st |-> d, out |-> Returned(Bool(identifier \in DOMAIN d))]

DictBackend_delete(d, identifier) ==
    IF identifier \in DOMAIN d
    THEN [st |-> DelItem(d, identifier), out |-> Returned(None)]
    ELSE [st |-> d, out |-> Raised("KeyError")]

(***************************************************************************)
(* ZipFileBackend.  A file is [exists, comment, items]; items are the      *)
(* archive's entries in the order they were written.                       *)
(***************************************************************************)
NoFile == [exists |-> FALSE, comment |-> "", items |-> <<>>]
ZipEntry(filename, text) == [filename |-> filename, text |-> text]
ZipFile(comment, items) == [exists |-> TRUE, comment |-> comment, items |-> items]

ZipFileBackend_path(identifier) == identifier \o ".json"

namelist(file) == {file.items[i].filename : i \in DOMAIN file.items}

\* ZipFile.read / ZipFile.open(name): the last entry written under the name
zread(file, filename) ==
    LET idx == {i \in DOMAIN file.items : file.items[i].filename = filename}
    IN  file.items[CHOOSE i \in idx : \A j \in idx : j <= i].text

\* ZipFile(..., mode='a').writestr(filename, data)
writestr(file, filename, data) ==
    ZipFile(file.comment, Append(file.items, ZipEntry(filename, data)))

SelectItems(items, filename) == SelectSeq(items, LAMBDA it : it.filename # filename)

\* _update, line 208: tempfile.mkstemp creates an empty temporary file
update_mkstemp(z) == [z EXCEPT !.tmp = [exists |-> TRUE, comment |-> "", items |-> <<>>]]

\* mutant of update_copy: the copy is written over the archive itself
update_copy_inplace(z, filename, n) ==
    [z EXCEPT !.root = ZipFile(z.root.comment,
                               SelectItems(SubSeq(z.root.items, 1, n), filename))]

\* mutant of update_copy: the entry of filename is copied with the others
update_copy_unfiltered(z, filename, n) ==
    [z EXCEPT !.tmp = ZipFile(z.root.comment, SubSeq(z.root.items, 1, n))]

\* _update, lines 212-217: the temporary archive gets the comment and the first n
\* entries of the archive other than filename
update_copy(z, filename, n) ==
    [z EXCEPT !.tmp = ZipFile(z.root.comment,
                              SelectItems(SubSeq(z.root.items, 1, n), filename))]

\* _update, line 220: os.remove(self._root)
update_remove(z) == [z EXCEPT !.root = NoFile]

\* _update, line 221: os.rename(tmpname, self._root)
update_rename(z) == [z EXCEPT !.root = z.tmp, !.tmp = NoFile]

\* mutant of update_append: the new entry is never written
update_append_skipped(z, filename, data) == z

\* _update, lines 224-226: the new entry is appended to the replaced archive
update_append(z, filename, data) ==
    IF data # None THEN [z EXCEPT !.root = writestr(z.root, filename, data)] ELSE z

\* _update run to its end
ZipFileBackend_update(z, filename, data) ==
    update_append(
        update_rename(
            update_remove(
                update_copy(update_mkstemp(z), filename, Len(z.root.items)))),
        filename, data)

ZipFileBackend_exists(z, identifier) ==
    IF ~z.root.exists
    THEN [st |-> z, out |-> Raised("FileNotFoundError")]
    ELSE [st |-> z,
          out |-> Returned(Bool(ZipFileBackend_path(identifier) \in namelist(z.root)))]

ZipFileBackend_put(z, identifier, data, overwrite) ==
    IF ~z.root.exists
    THEN [st |-> z, out |-> Raised("FileNotFoundError")]
    ELSE IF ZipFileBackend_path(identifier) \notin namelist(z.root)
    THEN [st |-> [z EXCEPT !.root = writestr(z.root, ZipFileBackend_path(identifier), data)],
          out |-> Returned(None)]
    ELSE IF overwrite
    THEN [st |-> ZipFileBackend_update(z, ZipFileBackend_path(identifier), data),
          out |-> Returned(None)]
    ELSE [st |-> z, out |-> Raised("FileExistsError")]

ZipFileBackend_get(z, identifier) ==
    IF z.root.exists /\ ZipFileBackend_path(identifier) \in namelist(z.root)
    THEN [st |-> z, out |-> Returned(zread(z.root, ZipFileBackend_path(identifier)))]
    ELSE [st |-> z, out |-> Raised("KeyError")]

ZipFileBackend_delete(z, identifier) ==
    IF ~z.root.exists
    THEN [st |-> z, out |-> Raised("FileNotFoundError")]
    ELSE IF ZipFileBackend_path(identifier) \notin namelist(z.root)
    THEN [st |-> z, out |-> Raised("KeyError")]
    ELSE [st |-> ZipFileBackend_update(z, ZipFileBackend_path(identifier), None),
          out |-> Returned(None)]

(***************************************************************************)
(* CachingBackend over a backend of the given kind: [cache, backend]       *)
(***************************************************************************)
BackendKinds == {"fs", "zip", "dict"}

Backend_put(kind, st, identifier, data, overwrite) ==
    CASE kind = "fs" -> FilesystemBackend_put(st, identifier, data, overwrite)
      [] kind = "zip" -> ZipFileBackend_put(st, identifier, data, overwrite)
      [] kind = "dict" -> DictBackend_put(st, identifier, data, overwrite)

Backend_get(kind, st, identifier) ==
    CASE kind = "fs" -> FilesystemBackend_get(st, identifier)
      [] kind = "zip" -> ZipFileBackend_get(st, identifier)
      [] kind = "dict" -> DictBackend_get(st, identifier)

Backend_exists(kind, st, identifier) ==
    CASE kind = "fs" -> FilesystemBackend_exists(st, identifier)
      [] kind = "zip" -> ZipFileBackend_exists(st, identifier)
      [] kind = "dict" -> DictBackend_exists(st, identifier)

Backend_delete(kind, st, identifier) ==
    CASE kind = "fs" -> FilesystemBackend_delete(st, identifier)
      [] kind = "zip" -> ZipFileBackend_delete(st, identifier)
      [] kind = "dict" -> DictBackend_delete(st, identifier)

\* mutant of CachingBackend_put: the in-memory map is written before the backend
CachingBackend_put_cache_first(kind, c, identifier, data, overwrite) ==
    IF identifier \in DOMAIN c.cache /\ ~overwrite
    THEN [st |-> c, out |-> Raised("FileExistsError")]
    ELSE LET r == Backend_put(kind, c.backend, identifier, data, overwrite)
         IN  [st |-> [cache |-> SetItem(c.cache, identifier, data), backend |-> r.st],
              out |-> r.out]

CachingBackend_put(kind, c, identifier, data, overwrite) ==
    IF identifier \in DOMAIN c.cache /\ ~overwrite
    THEN [st |-> c, out |-> Raised("FileExistsError")]
    ELSE LET r == Backend_put(kind, c.backend, identifier, data, overwrite)
         IN  IF r.out.exc # "ok"
             THEN [st |-> [c EXCEPT !.backend = r.st], out |-> r.out]
             ELSE [st |-> [cache |-> SetItem(c.cache, identifier, data), backend |-> r.st],
                   out |-> Returned(None)]

CachingBackend_get(kind, c, identifier) ==
    IF identifier \in DOMAIN c.cache
    THEN [st |-> c, out |-> Returned(c.cache[identifier])]
    ELSE LET r == Backend_get(kind, c.backend, identifier)
         IN  IF r.out.exc # "ok"
             THEN [st |-> [c EXCEPT !.backend = r.st], out |-> r.out]
             ELSE [st |-> [cache |-> SetItem(c.cache, identifier, r.out.val),
                           backend |-> r.st],
                   out |-> Returned(r.out.val)]

CachingBackend_exists(kind, c, identifier) ==
    LET r == Backend_exists(kind, c.backend, identifier)
    IN  [st |-> [c EXCEPT !.backend = r.st], out |-> r.out]

\* mutant of CachingBackend_delete: the in-memory map keeps the deleted text
CachingBackend_delete_keeps(kind, c, identifier) ==
    LET r == Backend_delete(kind, c.backend, identifier)
    IN  [st |-> [c EXCEPT !.backend = r.st], out |-> r.out]

CachingBackend_delete(kind, c, identifier) ==
    LET r == Backend_delete(kind, c.backend, identifier)
    IN  IF r.out.exc # "ok"
        THEN [st |-> [c EXCEPT !.backend = r.st], out |-> r.out]
        ELSE [st |-> [cache |-> IF identifier \in DOMAIN c.cache
                                THEN DelItem(c.cache, identifier) ELSE c.cache,
                      backend |-> r.st],
              out |-> Returned(None)]

(***************************************************************************)
(* The reference key-value map: the contract of StorageBackend             *)
(***************************************************************************)
Ref_put(m, identifier, data, overwrite) ==
    IF identifier \in DOMAIN m /\ ~overwrite
    THEN [st |-> m, out |-> Raised("FileExistsError")]
    ELSE [st |-> [x \in DOMAIN m \cup {identifier} |-> IF x = identifier THEN data ELSE m[x]],
          out |-> Returned(None)]

Ref_get(m, identifier) ==
    [st |-> m,
     out |-> IF identifier \in DOMAIN m THEN Returned(m[identifier]) ELSE Raised("KeyError")]

Ref_exists(m, identifier) == [st |-> m, out |-> Returned(Bool(identifier \in DOMAIN m))]

Ref_delete(m, identifier) ==
    IF identifier \in DOMAIN m
    THEN [st |-> [x \in DOMAIN m \ {identifier} |-> m[x]], out |-> Returned(None)]
    ELSE [st |-> m, out |-> Raised("KeyError")]

(***************************************************************************)
(* SpecBackends: every backend receives the same sequence of calls         *)
(***************************************************************************)
\* the documents a backend is constructed over: none, or one stored earlier
Preloads == {EmptyDict, [x \in {"a"} |-> "x"]}

FilesOf(m) == [p \in {FilesystemBackend_path(i) : i \in DOMAIN m} |->
                  m[CHOOSE i \in DOMAIN m : FilesystemBackend_path(i) = p]]

RECURSIVE ItemsOf(_, _)
ItemsOf(m, todo) ==
    IF todo = {} THEN <<>>
    ELSE LET i == CHOOSE i \in todo : TRUE
         IN  <<ZipEntry(ZipFileBackend_path(i), m[i])>> \o ItemsOf(m, todo \ {i})

ArchiveOf(m) == [root |-> ZipFile("comment", ItemsOf(m, DOMAIN m)), tmp |-> NoFile]

BackendOf(kind, m) ==
    CASE kind = "fs" -> FilesOf(m)
      [] kind = "zip" -> ArchiveOf(m)
      [] kind = "dict" -> m

NoCall == [op |-> "none", identifier |-> None, data |-> None, overwrite |-> FALSE,
           out |-> [b \in {} |-> Returned(None)]]

NoStoreCall == [op |-> "none", identifier |-> None, obj |-> 0, exc |-> "ok", val |-> 0,
                backend0 |-> EmptyDict, cache0 |-> EmptyDict, loads |-> <<>>]

\* the registries: the WeakValueDictionary that default_pulse_registry names when
\* the module is loaded (line 321), a dict the program passes to constructors, and
\* the PulseStorages the program installs as default registry
WeakRegistry == "WeakValueDictionary"
Storages == {"storage1", "storage2"}
\* the PulseStorage of SpecStore, as a value of default_pulse_registry
Self == "storage1"

StrongRegistries == {"dict"} \cup Storages

\* the module is loaded: the WeakValueDictionary is installed, nothing is registered
RegistryLoaded ==
    /\ default_pulse_registry = WeakRegistry
    /\ registries = [r \in StrongRegistries |-> EmptyDict]

\* the PulseStorage part of the state where a specification does not use it
StoreUnused ==
    /\ RegistryLoaded
    /\ storage_backend = EmptyDict
    /\ temporary_storage = EmptyDict
    /\ transaction_storage = [isNone |-> TRUE, items |-> <<>>]
    /\ heap = EmptyDict
    /\ registry = EmptyDict
    /\ held = {}
    /\ stack = <<>>
    /\ call = NoStoreCall

ZipIdle ==
    /\ zpc = "idle"
    /\ zcall = [op |-> "none", identifier |-> None, data |-> None, before |-> NoFile]
    /\ zhalt = "none"

InitBackends ==
    /\ \E m \in Preloads :
          /\ filesystem = FilesOf(m)
          /\ zipfile = ArchiveOf(m)
          /\ dict_cache = m
          /\ caching = [k \in BackendKinds |-> [cache |-> EmptyDict, backend |-> BackendOf(k, m)]]
          /\ ref = m
    /\ last = NoCall
    /\ ZipIdle
    /\ StoreUnused

\* what every backend answered, by name
Outs(f, z, d, c, r) ==
    [b \in {"fs", "zip", "dict", "cache_fs", "cache_zip", "cache_dict", "ref"} |->
        CASE b = "fs" -> f.out
          [] b = "zip" -> z.out
          [] b = "dict" -> d.out
          [] b = "cache_fs" -> c["fs"].out
          [] b = "cache_zip" -> c["zip"].out
          [] b = "cache_dict" -> c["dict"].out
          [] b = "ref" -> r.out]

Called(op, identifier, data, overwrite, f, z, d, c, r) ==
    /\ filesystem' = f.st
    /\ zipfile' = z.st
    /\ dict_cache' = d.st
    /\ caching' = [k \in BackendKinds |-> c[k].st]
    /\ ref' = r.st
    /\ last' = [op |-> op, identifier |-> identifier, data |-> data, overwrite |-> overwrite,
                out |-> Outs(f, z, d, c, r)]
    /\ UNCHANGED zipVars
    /\ UNCHANGED storeVars

Put(identifier, data, overwrite) ==
    Called("put", identifier, data, overwrite,
           FilesystemBackend_put(filesystem, identifier, data, overwrite),
           ZipFileBackend_put(zipfile, identifier, data, overwrite),
           DictBackend_put(dict_cache, identifier, data, overwrite),
           [k \in BackendKinds |-> CachingBackend_put(k, caching[k], identifier, data, overwrite)],
           Ref_put(ref, identifier, data, overwrite))

Get(identifier) ==
    Called("get", identifier, None, FALSE,
           FilesystemBackend_get(filesystem, identifier),
           ZipFileBackend_get(zipfile, identifier),
           DictBackend_get(dict_cache, identifier),
           [k \in BackendKinds |-> CachingBackend_get(k, caching[k], identifier)],
           Ref_get(ref, identifier))

Exists(identifier) ==
    Called("exists", identifier, None, FALSE,
           FilesystemBackend_exists(filesystem, identifier),
           ZipFileBackend_exists(zipfile, identifier),
           DictBackend_exists(dict_cache, identifier),
           [k \in BackendKinds |-> CachingBackend_exists(k, caching[k], identifier)],
           Ref_exists(ref, identifier))

Delete(identifier) ==
    Called("delete", identifier, None, FALSE,
           FilesystemBackend_delete(filesystem, identifier),
           ZipFileBackend_delete(zipfile, identifier),
           DictBackend_delete(dict_cache, identifier),
           [k \in BackendKinds |-> CachingBackend_delete(k, caching[k], identifier)],
           Ref_delete(ref, identifier))

BackendPut == \E i \in Identifiers, t \in Texts, o \in BOOLEAN : Put(i, t, o)
BackendGet == \E i \in Identifiers : Get(i)
BackendExists == \E i \in Identifiers : Exists(i)
BackendDelete == \E i \in Identifiers : Delete(i)

NextBackends == BackendPut \/ BackendGet \/ BackendExists \/ BackendDelete

SpecBackends == InitBackends /\ [][NextBackends]_vars

(***************************************************************************)
(* Claims on the backends (SpecBackends)                                   *)
(***************************************************************************)
BackendNames == {"fs", "zip", "dict", "cache_fs", "cache_zip", "cache_dict"}

\* the calls of backend b on its present state
Now_get(b, identifier) ==
    CASE b = "fs" -> FilesystemBackend_get(filesystem, identifier)
      [] b = "zip" -> ZipFileBackend_get(zipfile, identifier)
      [] b = "dict" -> DictBackend_get(dict_cache, identifier)
      [] b = "cache_fs" -> CachingBackend_get("fs", caching["fs"], identifier)
      [] b = "cache_zip" -> CachingBackend_get("zip", caching["zip"], identifier)
      [] b = "cache_dict" -> CachingBackend_get("dict", caching["dict"], identifier)

Now_exists(b, identifier) ==
    CASE b = "fs" -> FilesystemBackend_exists(filesystem, identifier)
      [] b = "zip" -> ZipFileBackend_exists(zipfile, identifier)
      [] b = "dict" -> DictBackend_exists(dict_cache, identifier)
      [] b = "cache_fs" -> CachingBackend_exists("fs", caching["fs"], identifier)
      [] b = "cache_zip" -> CachingBackend_exists("zip", caching["zip"], identifier)
      [] b = "cache_dict" -> CachingBackend_exists("dict", caching["dict"], identifier)

\* C1: every backend answers every call as the reference key-value map does, and
\* after any sequence of calls exists(id) and get(id) of every backend are those of
\* the reference map: exists is true exactly for the ids whose last successful
\* call was a put, get returns that put's data, and get of an absent id raises
\* KeyError (NotFound).
C1_BackendsRefineMap ==
    \A b \in BackendNames :
        /\ last.op # "none" => last.out[b] = last.out["ref"]
        /\ \A i \in Identifiers :
              /\ Now_exists(b, i).out = Returned(Bool(i \in DOMAIN ref))
              /\ Now_get(b, i).out =
                    IF i \in DOMAIN ref THEN Returned(ref[i]) ELSE Raised("KeyError")

\* C1 witness: a put with overwrite=True on an existing id has succeeded and
\* replaced its data in every backend.
C1_Witness ==
    /\ last.op = "put" /\ last.overwrite
    /\ last.identifier = "a" /\ last.data = "y"
    /\ \A b \in BackendNames : last.out[b].exc = "ok" /\ Now_get(b, "a").out = Returned("y")
    /\ "b" \in DOMAIN ref

\* C2: a put without overwrite on an id that is present raises FileExistsError
\* (AlreadyExists) in every backend and changes no backend: the documents and the
\* in-memory maps of the caching backends are as before the call.
C2_PutExistingUnchanged ==
    [][(last'.op = "put" /\ ~last'.overwrite /\ last'.identifier \in DOMAIN ref)
        => /\ \A b \in BackendNames : last'.out[b] = Raised("FileExistsError")
           /\ UNCHANGED <<filesystem, zipfile, dict_cache, caching>>]_vars

\* C2 witness: the put was refused for an id that the wrapped backends hold and the
\* in-memory maps do not.
C2_Witness ==
    /\ last.op = "put" /\ ~last.overwrite
    /\ \A b \in BackendNames : last.out[b] = Raised("FileExistsError")
    /\ \A k \in BackendKinds : last.identifier \notin DOMAIN caching[k].cache

\* C3 (state part): every identifier of a caching backend's in-memory map is
\* present in the wrapped backend with the same text.
CacheAgrees ==
    \A k \in BackendKinds : \A i \in DOMAIN caching[k].cache :
        Backend_get(k, caching[k].backend, i).out = Returned(caching[k].cache[i])

\* C3: the in-memory map of a caching backend always agrees with the wrapped
\* backend; a put or delete that fails leaves the map unchanged; after a
\* successful delete(id), get(id) raises KeyError.
C3_WriteThrough ==
    /\ []CacheAgrees
    /\ [][\A k \in BackendKinds :
            LET b == IF k = "fs" THEN "cache_fs"
                     ELSE IF k = "zip" THEN "cache_zip" ELSE "cache_dict"
            IN  /\ (last'.op \in {"put", "delete"} /\ last'.out[b].exc # "ok")
                     => caching'[k].cache = caching[k].cache
                /\ (last'.op = "delete" /\ last'.out[b].exc = "ok")
                     => CachingBackend_get(k, caching'[k], last'.identifier).out
                            = Raised("KeyError")]_vars

\* C3 witness: a delete through the decorator succeeded for an id whose text was
\* in the in-memory map, while another id stays cached.
C3_Witness ==
    /\ last.op = "delete" /\ last.out["cache_zip"].exc = "ok"
    /\ \A k \in BackendKinds : DOMAIN caching[k].cache = Identifiers \ {last.identifier}

(***************************************************************************)
(* SpecZip: ZipFileBackend with _update run step by step.  zpc names the   *)
(* step of _update that runs next; a call can be interrupted (an           *)
(* exception, a kill) between any two steps.                               *)
(***************************************************************************)
ZipPreloads == Preloads \cup {[x \in {"a", "b"} |-> IF x = "a" THEN "x" ELSE "y"]}

ZipOut(op, identifier, data, overwrite, out) ==
    [op |-> op, identifier |-> identifier, data |-> data, overwrite |-> overwrite,
     out |-> [b \in {"zip"} |-> out]]

InitZip ==
    /\ \E m \in ZipPreloads : zipfile = ArchiveOf(m)
    /\ filesystem = EmptyDict
    /\ dict_cache = EmptyDict
    /\ caching = EmptyDict
    /\ ref = EmptyDict
    /\ last = NoCall
    /\ ZipIdle
    /\ StoreUnused

ZipFrame == UNCHANGED <<filesystem, dict_cache, caching, ref>> /\ UNCHANGED storeVars

\* the call enters _update(filename, data)
ZipBeginUpdate(op, identifier, data) ==
    /\ zpc' = "mkstemp"
    /\ zcall' = [op |-> op, identifier |-> identifier, data |-> data, before |-> zipfile.root]
    /\ zhalt' = "none"
    /\ UNCHANGED <<zipfile, last>>

\* the call returns or raises without entering _update
ZipReturn(op, identifier, data, overwrite, r) ==
    /\ zipfile' = r.st
    /\ last' = ZipOut(op, identifier, data, overwrite, r.out)
    /\ zcall' = [op |-> op, identifier |-> identifier, data |-> data, before |-> zipfile.root]
    /\ zhalt' = "none"
    /\ zpc' = "idle"

\* ZipFileBackend.put
ZipPut ==
    /\ zpc = "idle"
    /\ \E i \in Identifiers, t \in Texts, o \in BOOLEAN :
          IF zipfile.root.exists /\ ZipFileBackend_path(i) \in namelist(zipfile.root) /\ o
          THEN ZipBeginUpdate("put", i, t)
          ELSE ZipReturn("put", i, t, o, ZipFileBackend_put(zipfile, i, t, o))
    /\ ZipFrame

\* ZipFileBackend.delete
ZipDelete ==
    /\ zpc = "idle"
    /\ \E i \in Identifiers :
          IF zipfile.root.exists /\ ZipFileBackend_path(i) \in namelist(zipfile.root)
          THEN ZipBeginUpdate("delete", i, None)
          ELSE ZipReturn("delete", i, None, FALSE, ZipFileBackend_delete(zipfile, i))
    /\ ZipFrame

\* _update, lines 208-209
UpdateMkstemp ==
    /\ zpc = "mkstemp"
    /\ zipfile' = update_mkstemp(zipfile)
    /\ zpc' = "copy0"
    /\ UNCHANGED <<zcall, zhalt, last>>
    /\ ZipFrame

\* the number of entries of the archive the copy loop has gone through
Copied(pc) == CASE pc = "copy0" -> 0 [] pc = "copy1" -> 1 [] pc = "copy2" -> 2
CopyPc(n) == CASE n = 0 -> "copy0" [] n = 1 -> "copy1" [] n = 2 -> "copy2"
CopyPcs == {"copy0", "copy1", "copy2"}

\* _update, lines 212-217: one round of the loop over zin.infolist(), or its end
UpdateCopy ==
    /\ zpc \in CopyPcs
    /\ IF Copied(zpc) < Len(zipfile.root.items)
       THEN /\ zipfile' = update_copy(zipfile, ZipFileBackend_path(zcall.identifier),
                                      Copied(zpc) + 1)
            /\ zpc' = CopyPc(Copied(zpc) + 1)
       ELSE /\ zipfile' = update_copy(zipfile, ZipFileBackend_path(zcall.identifier),
                                      Copied(zpc))
            /\ zpc' = "remove"
    /\ UNCHANGED <<zcall, zhalt, last>>
    /\ ZipFrame

\* _update, line 220
UpdateRemove ==
    /\ zpc = "remove"
    /\ zipfile' = update_remove(zipfile)
    /\ zpc' = "rename"
    /\ UNCHANGED <<zcall, zhalt, last>>
    /\ ZipFrame

\* _update, line 221
UpdateRename ==
    /\ zpc = "rename"
    /\ zipfile' = update_rename(zipfile)
    /\ zpc' = "append"
    /\ UNCHANGED <<zcall, zhalt, last>>
    /\ ZipFrame

\* _update, lines 224-226, and the return of put/delete
UpdateAppend ==
    /\ zpc = "append"
    /\ zipfile' = update_append(zipfile, ZipFileBackend_path(zcall.identifier), zcall.data)
    /\ zpc' = "idle"
    /\ last' = ZipOut(zcall.op, zcall.identifier, zcall.data, zcall.op = "put",
                      Returned(None))
    /\ UNCHANGED <<zcall, zhalt>>
    /\ ZipFrame

\* the running call is interrupted before its next step
ZipInterrupt ==
    /\ zpc # "idle"
    /\ zhalt' = zpc
    /\ zpc' = "idle"
    /\ last' = ZipOut(zcall.op, zcall.identifier, zcall.data, zcall.op = "put",
                      Raised("Interrupted"))
    /\ UNCHANGED <<zipfile, zcall>>
    /\ ZipFrame

NextZip ==
    \/ ZipPut \/ ZipDelete
    \/ UpdateMkstemp \/ UpdateCopy \/ UpdateRemove \/ UpdateRename \/ UpdateAppend
    \/ ZipInterrupt

SpecZip == InitZip /\ [][NextZip]_vars

\* the steps of _update that come before os.remove(self._root)
BeforeReplace == {"mkstemp", "remove"} \cup CopyPcs

\* C4: while an update (put with overwrite on an existing entry, or delete) has
\* not reached the replace step, and after it was interrupted before that step,
\* the archive file is the one the call found: it exists and every entry has its
\* old content.
C4_InterruptedBeforeReplace ==
    (zpc \in BeforeReplace \/ zhalt \in BeforeReplace)
        => /\ zipfile.root = zcall.before
           /\ zipfile.root.exists

\* C4 witness: a put with overwrite was interrupted when the temporary archive was
\* written and the archive file not yet removed.
C4_Witness ==
    /\ zhalt = "remove" /\ zcall.op = "put" /\ zpc = "idle"
    /\ Len(zcall.before.items) = 2
    /\ zipfile.tmp.exists /\ Len(zipfile.tmp.items) = 1

\* C5 (the claim as stated): from the first step of a put with overwrite on an
\* existing entry to its return, and wherever it is interrupted, the archive
\* file exists and get(identifier) returns the old text or the new text.
C5_OverwriteAtomic ==
    (zcall.op = "put" /\ (zpc # "idle" \/ zhalt # "none"))
        => /\ zipfile.root.exists
           /\ ZipFileBackend_get(zipfile, zcall.identifier).out \in
                 {Returned(zread(zcall.before, ZipFileBackend_path(zcall.identifier))),
                  Returned(zcall.data)}

\* a put with overwrite=True or a delete has returned
ZipCompleted ==
    /\ zpc = "idle" /\ zhalt = "none"
    /\ last.op \in {"put", "delete"}
    /\ last.op = "put" => last.overwrite
    /\ last.out["zip"] = Returned(None)

\* C26: when a put with overwrite=True or a delete has returned, the archive has the
\* comment the call found and, the entry of the identifier apart, the entries the
\* call found, with their names and texts; no two entries of the archive have the
\* same name; the entry of the identifier has the text that was put, or is gone
\* after a delete.
C26_OtherEntriesKept ==
    ZipCompleted =>
        LET filename == ZipFileBackend_path(last.identifier)
            items == zipfile.root.items
        IN  /\ zipfile.root.exists
            /\ zipfile.root.comment = zcall.before.comment
            /\ SelectItems(items, filename) = SelectItems(zcall.before.items, filename)
            /\ \A j, k \in DOMAIN items : items[j].filename = items[k].filename => j = k
            /\ IF last.op = "put"
               THEN filename \in namelist(zipfile.root)
                    /\ zread(zipfile.root, filename) = last.data
               ELSE filename \notin namelist(zipfile.root)

\* C26 witness: a put with overwrite=True has replaced the text of one of the two
\* entries of an archive that has a comment.
C26_Witness ==
    /\ ZipCompleted /\ last.op = "put"
    /\ Len(zcall.before.items) = 2
    /\ zcall.before.comment # ""
    /\ ZipFileBackend_path(last.identifier) \in namelist(zcall.before)
    /\ zread(zcall.before, ZipFileBackend_path(last.identifier)) # last.data
    /\ Len(zipfile.root.items) = 2

(***************************************************************************)
(* Serializable objects, documents and the PulseStorage front-end.         *)
(*                                                                         *)
(* An object of the heap is [type, identifier, val, kids, jsonable]: its   *)
(* class, its identifier (None: it has none), a scalar field, the nested   *)
(* Serializables it holds, and whether the rest of its data is JSON        *)
(* encodable (json raises TypeError where it is not).  The document of an  *)
(* object, the text json writes with sort_keys, is                         *)
(* [type, identifier, val, kids] with kids the documents and reference     *)
(* tokens of the nested objects.                                           *)
(***************************************************************************)
\* the objects that can be alive at a time (those a decoder constructs included)
MaxObj == 15

NoObj == 0

Obj(type, identifier, val, kids, jsonable) ==
    [type |-> type, identifier |-> identifier, val |-> val, kids |-> kids,
     jsonable |-> jsonable]

\* the objects the calling program constructs: object o is UserHeap[o]
UserHeap ==
    << Obj("Pulse", "a", 0, <<>>, TRUE),
       Obj("Pulse", "a", 1, <<>>, TRUE),            \* a second object named "a"
       Obj("Sequence", "b", 0, <<1, 9>>, TRUE),
       Obj("Pulse", None, 0, <<>>, FALSE),           \* holds a value json cannot encode
       Obj("Sequence", None, 0, <<1, 1>>, TRUE),
       Obj("Sequence", None, 0, <<1, 2>>, TRUE),
       Obj("Sequence", None, 0, <<3, 8>>, TRUE),
       Obj("Sequence", "b", 1, <<1, 4>>, TRUE),
       Obj("Pulse", None, 1, <<>>, TRUE) >>

NUser == Len(UserHeap)

\* the objects registered in default_pulse_registry when they were constructed;
\* the others were constructed with a registry of their own (_register(registry))
GlobalRegistry == [i \in {"a", "b"} |-> IF i = "a" THEN 1 ELSE 3]

\* the keys the program stores under, and what it stores there
Keys == {"a", "b", "main"}
Stores == {<<"a", 1>>, <<"a", 2>>, <<"b", 3>>, <<"b", 8>>,
           <<"main", 5>>, <<"main", 6>>, <<"main", 7>>}
\* the objects whose scalar field the program changes
Mutables == {1}

\* the exceptions, named by the place that raises them
AlreadyBoundCached == "RuntimeError: Identifier assigned twice with different objects"
AlreadyBoundBackend == "RuntimeError: Identifier already assigned in storage backend"
IdentifierConflict ==
    "RuntimeError: Trying to store a subpulse with an identifier that is already taken."
DuplicateIdentifier == "RuntimeError: Pulse with name already exists"
NotFound == "KeyError"
NotEncodable == "TypeError"

(* documents *)
\* mutant of ReferenceToken: the encoder writes a copy of the object in place
ReferenceToken_embedded(identifier) ==
    [type |-> "Pulse", identifier |-> identifier, val |-> 0, kids |-> <<>>]

\* JSONSerializableEncoder.default, lines 792-793
ReferenceToken(identifier) == [type |-> "reference", identifier |-> identifier]

\* Serializable.get_serialization_data of object o, its nested objects encoded as kids
SerializationData(h, o, kids) ==
    [type |-> h[o].type, identifier |-> h[o].identifier, val |-> h[o].val, kids |-> kids]

NoDoc == [type |-> None, identifier |-> None, val |-> 0, kids |-> <<>>]

StorageEntry(serialization, serializable) ==
    [serialization |-> serialization, serializable |-> serializable]

(* PulseStorage._transaction_storage: None, or a dict in insertion order *)
TransactionNone == [isNone |-> TRUE, items |-> <<>>]
TransactionDict(items) == [isNone |-> FALSE, items |-> items]

TransactionKeys(t) == {t.items[j].identifier : j \in DOMAIN t.items}

\* self._transaction_storage[identifier] = entry: a new key goes last, a key the
\* dict has keeps its place
TransactionSet(t, identifier, entry) ==
    LET item == [identifier |-> identifier, entry |-> entry]
    IN  IF identifier \in TransactionKeys(t)
        THEN TransactionDict([j \in DOMAIN t.items |->
                                 IF t.items[j].identifier = identifier THEN item
                                 ELSE t.items[j]])
        ELSE TransactionDict(Append(t.items, item))

\* mutant of FlushItems: only the entry of the outermost overwrite, the last of the
\* transaction, is put
FlushItems_outermost_only(backend, items) ==
    IF items = <<>> THEN backend
    ELSE DictBackend_put(backend, items[Len(items)].identifier,
                         items[Len(items)].entry.serialization, TRUE).st

\* overwrite, lines 713-714: every entry of the transaction is put, overwrite=True
RECURSIVE FlushItems(_, _)
FlushItems(backend, items) ==
    IF items = <<>> THEN backend
    ELSE FlushItems(DictBackend_put(backend, items[1].identifier,
                                    items[1].entry.serialization, TRUE).st,
                    Tail(items))

\* mutant of UpdateItems: the cache is replaced by the entries of the transaction
UpdateItems_replaces(temp, items) ==
    [i \in {items[j].identifier : j \in DOMAIN items} |->
        items[CHOOSE j \in DOMAIN items :
                 /\ items[j].identifier = i
                 /\ \A m \in DOMAIN items : items[m].identifier = i => m <= j].entry]

\* overwrite, line 715: self._temporary_storage.update(**self._transaction_storage)
RECURSIVE UpdateItems(_, _)
UpdateItems(temp, items) ==
    IF items = <<>> THEN temp
    ELSE UpdateItems(SetItem(temp, items[1].identifier, items[1].entry), Tail(items))

\* PulseStorage.__contains__
PulseStorage_contains(temp, backend, identifier) ==
    identifier \in DOMAIN temp \/ DictBackend_exists(backend, identifier).out.val = "True"

\* mutant of PulseStorage_setitem: the backend is not looked at
PulseStorage_setitem_cache_only(temp, backend, identifier, serializable) ==
    IF identifier \in DOMAIN temp
    THEN IF temp[identifier].serializable = serializable
         THEN "return"
         ELSE AlreadyBoundCached
    ELSE "overwrite"

\* mutant of PulseStorage_setitem: an object that is cached under the identifier is
\* written again
PulseStorage_setitem_rewrites(temp, backend, identifier, serializable) ==
    IF identifier \in DOMAIN temp
    THEN IF temp[identifier].serializable = serializable
         THEN "overwrite"
         ELSE AlreadyBoundCached
    ELSE IF DictBackend_exists(backend, identifier).out.val = "True"
    THEN AlreadyBoundBackend
    ELSE "overwrite"

\* PulseStorage.__setitem__ up to its last line: what it does with the call
PulseStorage_setitem(temp, backend, identifier, serializable) ==
    IF identifier \in DOMAIN temp
    THEN IF temp[identifier].serializable = serializable
         THEN "return"
         ELSE AlreadyBoundCached
    ELSE IF DictBackend_exists(backend, identifier).out.val = "True"
    THEN AlreadyBoundBackend
    ELSE "overwrite"

(* the call stack *)
Frame(kind, identifier, obj, doc, begin) ==
    [kind |-> kind, identifier |-> identifier, obj |-> obj, doc |-> doc,
     pos |-> 1, out |-> <<>>, begin |-> begin]

\* mutant of OverwriteFrame: every overwrite takes itself for the one that began
\* the transaction
OverwriteFrame_begins(identifier, o, begin) == Frame("overwrite", identifier, o, NoDoc, TRUE)

\* PulseStorage.overwrite(identifier, serializable), its encoder at work
OverwriteFrame(identifier, o, begin) == Frame("overwrite", identifier, o, NoDoc, begin)
\* JSONSerializableEncoder.default returned the data of an object without identifier
EmbedFrame(o) == Frame("embed", None, o, NoDoc, FALSE)
\* PulseStorage._load_and_deserialize(identifier), its decoder at work
LoadFrame(identifier, doc) == Frame("load", identifier, NoObj, doc, FALSE)
\* the decoder inside an embedded document
DecodeFrame(doc) == Frame("decode", None, NoObj, doc, FALSE)

Encoding == {"overwrite", "embed"}
Decoding == {"load", "decode"}

Top == stack[Len(stack)]
Pop(stk) == SubSeq(stk, 1, Len(stk) - 1)
\* the frame on top goes on with its next nested value, v being what the last became
Advance(stk, v) ==
    [stk EXCEPT ![Len(stk)].pos = @ + 1, ![Len(stk)].out = Append(@, v)]

(* reachability: the WeakValueDictionary keeps an entry while its object lives *)
SeqRange(q) == {q[j] : j \in DOMAIN q}

RECURSIVE Reach(_, _)
Reach(h, objs) ==
    LET more == objs \cup UNION {SeqRange(h[o].kids) : o \in objs}
    IN  IF more = objs THEN objs ELSE Reach(h, more)

Roots(temp, trans, stk, c) ==
    (held
     \cup {temp[i].serializable : i \in DOMAIN temp}
     \cup {trans.items[j].entry.serializable : j \in DOMAIN trans.items}
     \cup {stk[j].obj : j \in DOMAIN stk}
     \cup UNION {SeqRange(stk[j].out) : j \in {k \in DOMAIN stk : stk[k].kind \in Decoding}}
     \cup {c.obj, c.val}
     \cup {c.cache0[i].serializable : i \in DOMAIN c.cache0}) \ {NoObj}

\* every variable of the front-end after a step; objects nothing refers to any
\* more leave the heap, and the registry with them
Commit(backend, temp, trans, h, reg, stk, c) ==
    LET live == Reach(h, Roots(temp, trans, stk, c) \cap DOMAIN h)
    IN  /\ storage_backend' = backend
        /\ temporary_storage' = temp
        /\ transaction_storage' = trans
        /\ heap' = [o \in live |-> h[o]]
        /\ registry' = [i \in {x \in DOMAIN reg : reg[x] \in live} |-> reg[i]]
        /\ stack' = stk
        /\ call' = c
        /\ UNCHANGED held
        /\ UNCHANGED registryVars
        /\ UNCHANGED <<filesystem, zipfile, dict_cache, caching, ref, last, zpc, zcall, zhalt>>

\* a call begins: what it is and the state it finds
Calling(op, identifier, o) ==
    [op |-> op, identifier |-> identifier, obj |-> o, exc |-> "running", val |-> NoObj,
     backend0 |-> storage_backend, cache0 |-> temporary_storage, loads |-> <<>>]

\* _load_and_deserialize, line 658: the call reads the document of identifier
Loading(c, identifier) == [c EXCEPT !.loads = Append(@, identifier)]

\* the running call ends
Ended(c, exc, val) == [c EXCEPT !.exc = exc, !.val = val]

\* mutant of Raise: the finally clause flushes what the transaction holds
Raise_flushing(c, exc, temp, h, reg) ==
    Commit(FlushItems(storage_backend, transaction_storage.items), temp,
           TransactionNone, h, reg, <<>>, Ended(c, exc, NoObj))

\* mutant of Raise: overwrite has no finally clause, the transaction stays
Raise_keeps_transaction(c, exc, temp, h, reg) ==
    Commit(storage_backend, temp, transaction_storage, h, reg, <<>>, Ended(c, exc, NoObj))

\* an exception leaves every frame; the finally clause of the overwrite that began
\* the transaction (lines 717-719) ends it
Raise(c, exc, temp, h, reg) ==
    Commit(storage_backend, temp,
           IF stack # <<>> /\ stack[1].begin THEN TransactionNone ELSE transaction_storage,
           h, reg, <<>>, Ended(c, exc, NoObj))

InitStore ==
    /\ storage_backend = EmptyDict
    /\ temporary_storage = EmptyDict
    /\ transaction_storage = TransactionNone
    /\ heap = UserHeap
    /\ registry \in {GlobalRegistry, EmptyDict}
    /\ held = 1..NUser
    /\ stack = <<>>
    /\ call = NoStoreCall
    \* the program may have called set_to_default_registry() on the storage
    /\ default_pulse_registry \in {WeakRegistry, Self}
    /\ default_pulse_registry = Self => registry = GlobalRegistry
    /\ registries = [r \in StrongRegistries |-> EmptyDict]
    /\ filesystem = EmptyDict
    /\ zipfile = [root |-> NoFile, tmp |-> NoFile]
    /\ dict_cache = EmptyDict
    /\ caching = EmptyDict
    /\ ref = EmptyDict
    /\ last = NoCall
    /\ ZipIdle

(***************************************************************************)
(* The calls of PulseStorage.  A call that encodes or decodes goes on step *)
(* by step (EncodeStep, EncodeFinish, DecodeStep, DecodeFinish): one step  *)
(* per nested value of the object or document on top of the stack.         *)
(***************************************************************************)
\* overwrite, lines 701-704: the call enters overwrite(identifier, serializable)
EnterOverwrite(c, identifier, o) ==
    Commit(storage_backend, temporary_storage,
           IF transaction_storage.isNone THEN TransactionDict(<<>>) ELSE transaction_storage,
           heap, registry,
           Append(stack, OverwriteFrame(identifier, o, transaction_storage.isNone)), c)

\* PulseStorage.overwrite called by the program
Overwrite ==
    /\ stack = <<>>
    /\ \E st \in Stores :
          EnterOverwrite(Calling("overwrite", st[1], st[2]), st[1], st[2])

\* PulseStorage.__setitem__ called by the program
Write ==
    /\ stack = <<>>
    /\ \E st \in Stores :
          LET does == PulseStorage_setitem(temporary_storage, storage_backend, st[1], st[2])
              c == Calling("write", st[1], st[2])
          IN  IF does = "overwrite" THEN EnterOverwrite(c, st[1], st[2])
              ELSE Commit(storage_backend, temporary_storage, transaction_storage,
                          heap, registry, <<>>,
                          Ended(c, IF does = "return" THEN "ok" ELSE does, NoObj))

\* mutant of GetItem: the cache is not looked at, a stored document is loaded anew
GetItem_always_loads(identifier) ==
    IF DictBackend_get(storage_backend, identifier).out.exc # "ok"
    THEN IF identifier \in DOMAIN temporary_storage THEN "cached" ELSE NotFound
    ELSE "load"

\* PulseStorage.__getitem__: the entry of the cache, or _load_and_deserialize
\* (line 658: the document is read, line 659: its decoding begins)
GetItem(identifier) ==
    IF identifier \in DOMAIN temporary_storage
    THEN "cached"
    ELSE IF DictBackend_get(storage_backend, identifier).out.exc # "ok"
    THEN NotFound
    ELSE "load"

\* PulseStorage.__getitem__ called by the program
Read ==
    /\ stack = <<>>
    /\ \E k \in Keys :
          LET c == Calling("read", k, NoObj)
              does == GetItem(k)
          IN  IF does = "load"
              THEN Commit(storage_backend, temporary_storage, transaction_storage, heap,
                          registry,
                          <<LoadFrame(k, DictBackend_get(storage_backend, k).out.val)>>,
                          Loading(c, k))
              ELSE IF does = "cached"
              THEN Commit(storage_backend, temporary_storage, transaction_storage, heap,
                          registry, <<>>,
                          Ended(c, "ok", temporary_storage[k].serializable))
              ELSE Commit(storage_backend, temporary_storage, transaction_storage, heap,
                          registry, <<>>, Ended(c, does, NoObj))

\* mutant of PulseStorage_delitem: an identifier the backend does not hold is
\* passed over
PulseStorage_delitem_tolerant(temp, backend, identifier) ==
    LET r == DictBackend_delete(backend, identifier)
    IN  [backend |-> IF r.out.exc # "ok" THEN backend ELSE r.st,
         temp |-> IF identifier \in DOMAIN temp THEN DelItem(temp, identifier) ELSE temp,
         exc |-> "ok"]

\* mutant of PulseStorage_delitem: the cache keeps its entry
PulseStorage_delitem_backend_only(temp, backend, identifier) ==
    LET r == DictBackend_delete(backend, identifier)
    IN  IF r.out.exc # "ok"
        THEN [backend |-> backend, temp |-> temp, exc |-> r.out.exc]
        ELSE [backend |-> r.st, temp |-> temp, exc |-> "ok"]

\* PulseStorage.__delitem__: line 692 deletes from the backend, whose KeyError
\* leaves the method; lines 693-696 delete from the cache what it holds
PulseStorage_delitem(temp, backend, identifier) ==
    LET r == DictBackend_delete(backend, identifier)
    IN  IF r.out.exc # "ok"
        THEN [backend |-> backend, temp |-> temp, exc |-> r.out.exc]
        ELSE [backend |-> r.st,
              temp |-> IF identifier \in DOMAIN temp THEN DelItem(temp, identifier)
                       ELSE temp,
              exc |-> "ok"]

\* PulseStorage.__delitem__ called by the program
Remove ==
    /\ stack = <<>>
    /\ \E k \in Keys :
          LET r == PulseStorage_delitem(temporary_storage, storage_backend, k)
          IN  Commit(r.backend, r.temp, transaction_storage, heap, registry, <<>>,
                     Ended(Calling("remove", k, NoObj), r.exc, NoObj))

\* PulseStorage.clear called by the program
Clear ==
    /\ stack = <<>>
    /\ temporary_storage # EmptyDict
    /\ Commit(storage_backend, EmptyDict, transaction_storage, heap, registry, <<>>,
              Ended(Calling("clear", None, NoObj), "ok", NoObj))

\* the program changes the scalar field of one of its objects
Mutate ==
    /\ stack = <<>>
    /\ \E o \in Mutables \cap DOMAIN heap :
          Commit(storage_backend, temporary_storage, transaction_storage,
                 [heap EXCEPT ![o].val = 1 - @], registry, <<>>,
                 Ended(Calling("mutate", None, o), "ok", NoObj))

\* JSONSerializableEncoder.default(o) for the next nested object o of the object
\* on top of the stack
EncodeStep ==
    /\ stack # <<>>
    /\ Top.kind \in Encoding
    /\ Top.pos <= Len(heap[Top.obj].kids)
    /\ LET o == heap[Top.obj].kids[Top.pos]
           identifier == heap[o].identifier
       IN  IF identifier = None
           THEN \* line 795: its data is encoded in place
                Commit(storage_backend, temporary_storage, transaction_storage, heap,
                       registry, Append(stack, EmbedFrame(o)), call)
           ELSE IF ~PulseStorage_contains(temporary_storage, storage_backend, identifier)
           THEN \* line 787: self.storage[o.identifier] = o
                LET does == PulseStorage_setitem(temporary_storage, storage_backend,
                                                 identifier, o)
                IN  IF does = "overwrite" THEN EnterOverwrite(call, identifier, o)
                    ELSE IF does = "return"
                    THEN Commit(storage_backend, temporary_storage, transaction_storage,
                                heap, registry,
                                Advance(stack, ReferenceToken(identifier)), call)
                    ELSE Raise(call, does, temporary_storage, heap, registry)
           ELSE \* line 788: o is not self.storage[o.identifier]
                LET does == GetItem(identifier)
                IN  IF does = "load"
                    THEN Commit(storage_backend, temporary_storage, transaction_storage,
                                heap, registry,
                                Append(stack,
                                       LoadFrame(identifier,
                                                 DictBackend_get(storage_backend,
                                                                 identifier).out.val)),
                                Loading(call, identifier))
                    ELSE IF does = "cached"
                    THEN IF temporary_storage[identifier].serializable = o
                         THEN Commit(storage_backend, temporary_storage,
                                     transaction_storage, heap, registry,
                                     Advance(stack, ReferenceToken(identifier)), call)
                         ELSE Raise(call, IdentifierConflict, temporary_storage, heap,
                                    registry)
                    ELSE Raise(call, does, temporary_storage, heap, registry)

\* the encoder has gone through the nested objects of the object on top: the rest of
\* its data is encoded, and the frame returns
EncodeFinish ==
    /\ stack # <<>>
    /\ Top.kind \in Encoding
    /\ Top.pos > Len(heap[Top.obj].kids)
    /\ LET serialized == SerializationData(heap, Top.obj, Top.out)
           entered == TransactionSet(transaction_storage, Top.identifier,
                                     StorageEntry(serialized, Top.obj))
       IN  IF ~heap[Top.obj].jsonable
           THEN Raise(call, NotEncodable, temporary_storage, heap, registry)
           ELSE IF Top.kind = "embed"
           THEN Commit(storage_backend, temporary_storage, transaction_storage, heap,
                       registry, Advance(Pop(stack), serialized), call)
           ELSE IF Top.begin
           THEN \* lines 710-719: the transaction is flushed and ended
                Commit(FlushItems(storage_backend, entered.items),
                       UpdateItems(temporary_storage, entered.items),
                       TransactionNone, heap, registry, Pop(stack),
                       Ended(call, "ok", NoObj))
           ELSE \* line 710, then lines 792-793: default returns the reference
                Commit(storage_backend, temporary_storage, entered, heap, registry,
                       Advance(Pop(stack), ReferenceToken(heap[Top.obj].identifier)), call)

\* the depth of calls at which the interpreter raises RecursionError instead of
\* entering another call (sys.getrecursionlimit(), scaled down to the frames of
\* this model); the encoders and decoders of SpecStore stay below it
RecursionLimit == 5

RecursionError == "RecursionError"

\* mutant of Recursing: the interpreter never refuses a call
Recursing_never(stk) == FALSE

\* __getitem__ and the decoder call each other (lines 673, 659, 758) with nothing
\* that ends the recursion but the interpreter
Recursing(stk) == Len(stk) >= RecursionLimit

\* JSONSerializableDecoder.filter_serializables for the next nested document of the
\* document on top of the stack
DecodeStep ==
    /\ stack # <<>>
    /\ Top.kind \in Decoding
    /\ Top.pos <= Len(Top.doc.kids)
    /\ LET nested == Top.doc.kids[Top.pos]
           does == GetItem(nested.identifier)
       IN  IF nested.type # "reference"
           THEN IF Recursing(stack)
                THEN Raise(call, RecursionError, temporary_storage, heap, registry)
                ELSE Commit(storage_backend, temporary_storage, transaction_storage, heap,
                            registry, Append(stack, DecodeFrame(nested)), call)
           ELSE \* line 758: return self.storage[obj_identifier]
                IF does = "load"
                THEN IF Recursing(stack)
                     THEN Raise(call, RecursionError, temporary_storage, heap, registry)
                     ELSE Commit(storage_backend, temporary_storage, transaction_storage,
                                 heap, registry,
                                 Append(stack,
                                        LoadFrame(nested.identifier,
                                                  DictBackend_get(storage_backend,
                                                                  nested.identifier).out.val)),
                                 Loading(call, nested.identifier))
                ELSE IF does = "cached"
                THEN Commit(storage_backend, temporary_storage, transaction_storage, heap,
                            registry,
                            Advance(stack, temporary_storage[nested.identifier].serializable),
                            call)
                ELSE Raise(call, does, temporary_storage, heap, registry)

\* the object a decoder constructs next: the first free place of the heap
NewObj(h) == CHOOSE n \in (NUser + 1)..MaxObj :
                 /\ n \notin DOMAIN h
                 /\ \A m \in (NUser + 1)..MaxObj : m < n => m \in DOMAIN h

\* Serializable._register(registry=None) of a new object: lines 377-385
Serializable_register(reg, identifier, o) ==
    IF identifier = None THEN [reg |-> reg, exc |-> "ok"]
    ELSE IF identifier \in DOMAIN reg THEN [reg |-> reg, exc |-> DuplicateIdentifier]
    ELSE [reg |-> SetItem(reg, identifier, o), exc |-> "ok"]

\* mutant of filter_serializables_registry: the callback always gets registry=None
filter_serializables_registry_none(default, storage) == None

\* filter_serializables, lines 767-769: the registry keyword the callback gets, None
\* or a new dict
filter_serializables_registry(default, storage) ==
    IF default = storage THEN "dict" ELSE None

\* the decoder has gone through the nested documents of the document on top: the
\* deserialization callback constructs the object (line 771), and the frame returns
DecodeFinish ==
    /\ stack # <<>>
    /\ Top.kind \in Decoding
    /\ Top.pos > Len(Top.doc.kids)
    /\ \E n \in (NUser + 1)..MaxObj : n \notin DOMAIN heap
    /\ LET n == NewObj(heap)
           h == [o \in DOMAIN heap \cup {n} |->
                    IF o = n
                    THEN Obj(Top.doc.type, Top.doc.identifier, Top.doc.val, Top.out, TRUE)
                    ELSE heap[o]]
           keyword == filter_serializables_registry(default_pulse_registry, Self)
           \* _register, lines 374-375: None stands for default_pulse_registry, which
           \* is the WeakValueDictionary then; a dict of the decoder's is lost with it
           made == Serializable_register(IF keyword = None THEN registry ELSE EmptyDict,
                                         Top.doc.identifier, n)
           registered == [reg |-> IF keyword = None THEN made.reg ELSE registry,
                          exc |-> made.exc]
           \* line 660: the loaded entry enters the cache
           temp == SetItem(temporary_storage, Top.identifier, StorageEntry(Top.doc, n))
           under == Pop(stack)
       IN  IF registered.exc # "ok"
           THEN Raise(call, registered.exc, temporary_storage, heap, registry)
           ELSE IF Top.kind = "decode"
           THEN Commit(storage_backend, temporary_storage, transaction_storage, h,
                       registered.reg, Advance(under, n), call)
           ELSE IF under = <<>>
           THEN \* line 674: __getitem__ returns to the program
                Commit(storage_backend, temp, transaction_storage, h, registered.reg,
                       <<>>, Ended(call, "ok", n))
           ELSE IF under[Len(under)].kind \in Decoding
           THEN Commit(storage_backend, temp, transaction_storage, h, registered.reg,
                       Advance(under, n), call)
           ELSE \* line 788: the encoder compares the loaded object with o
                IF n = heap[under[Len(under)].obj].kids[under[Len(under)].pos]
                THEN Commit(storage_backend, temp, transaction_storage, h, registered.reg,
                            Advance(under, ReferenceToken(Top.identifier)), call)
                ELSE Raise(call, IdentifierConflict, temp, h, registered.reg)

NextStore ==
    \/ Overwrite \/ Write \/ Read \/ Remove \/ Clear \/ Mutate
    \/ EncodeStep \/ EncodeFinish \/ DecodeStep \/ DecodeFinish

SpecStore == InitStore /\ [][NextStore]_vars

\* the decoder always finds a free place for the object it constructs
HeapSuffices ==
    (stack # <<>> /\ Top.kind \in Decoding /\ Top.pos > Len(Top.doc.kids))
        => \E n \in (NUser + 1)..MaxObj : n \notin DOMAIN heap

(***************************************************************************)
(* SpecFaulty: the front-end over a backend whose put can raise (the        *)
(* OSError of open() in FilesystemBackend.put, line 123).  The put that     *)
(* raises has stored nothing; the puts before it have stored their          *)
(* documents.  Which put raises is the environment's choice.                *)
(***************************************************************************)
PutFailed == "OSError"

\* mutant of overwrite_put_raises: the documents put before the failure are taken
\* back
overwrite_put_raises_rollback(backend, temp, items, k) ==
    [backend |-> backend, temp |-> temp]

\* mutant of overwrite_put_raises: the cache takes the pairs that were put
overwrite_put_raises_merging(backend, temp, items, k) ==
    [backend |-> FlushItems(backend, SubSeq(items, 1, k)),
     temp |-> UpdateItems(temp, SubSeq(items, 1, k))]

\* overwrite, lines 713-714, when put number k + 1 raises: the loop has put the first
\* k entries, line 715 is not reached
overwrite_put_raises(backend, temp, items, k) ==
    [backend |-> FlushItems(backend, SubSeq(items, 1, k)), temp |-> temp]

\* the call ends with the exception of the put; what the transaction held and how
\* many of its entries were put is kept for the record
Failing(c, items, k) ==
    [op |-> c.op, identifier |-> c.identifier, obj |-> c.obj, exc |-> PutFailed,
     val |-> NoObj, backend0 |-> c.backend0, cache0 |-> c.cache0, loads |-> c.loads,
     items |-> items, put |-> k]

\* the outermost overwrite has encoded its object and flushes (lines 712-714); a put
\* raises, and the finally clause (lines 717-719) ends the transaction
FlushRaises ==
    /\ stack # <<>>
    /\ Top.kind = "overwrite"
    /\ Top.begin
    /\ Top.pos > Len(heap[Top.obj].kids)
    /\ heap[Top.obj].jsonable
    /\ LET serialized == SerializationData(heap, Top.obj, Top.out)
           entered == TransactionSet(transaction_storage, Top.identifier,
                                     StorageEntry(serialized, Top.obj))
       IN  \E k \in 0..(Len(entered.items) - 1) :
               LET r == overwrite_put_raises(storage_backend, temporary_storage,
                                             entered.items, k)
               IN  Commit(r.backend, r.temp, TransactionNone, heap, registry, <<>>,
                          Failing(call, entered.items, k))

NextFaulty == NextStore \/ FlushRaises

SpecFaulty == InitStore /\ [][NextFaulty]_vars

(***************************************************************************)
(* SpecCycle: a front-end over a backend that holds documents it has not    *)
(* written, among them documents whose reference tokens form a cycle.  The  *)
(* program reads, removes and clears.  A call that has begun goes on to its *)
(* end: the steps of the decoder are weakly fair.                           *)
(***************************************************************************)
RefDoc(identifier, kids) ==
    [type |-> "Sequence", identifier |-> identifier, val |-> 0, kids |-> kids]
LeafDoc(identifier) == [type |-> "Pulse", identifier |-> identifier, val |-> 0, kids |-> <<>>]

\* the backends the front-end is constructed with
CyclePreloads ==
    { \* a document that refers to itself
      [i \in {"a"} |-> RefDoc("a", <<ReferenceToken("a")>>)],
      \* two documents that refer to each other
      [i \in {"a", "b"} |-> IF i = "a" THEN RefDoc("a", <<ReferenceToken("b")>>)
                            ELSE RefDoc("b", <<ReferenceToken("a")>>)],
      \* a cycle through an embedded document, entered from another document
      [i \in {"b", "main"} |->
          IF i = "b"
          THEN RefDoc("b", <<RefDoc(None, <<LeafDoc(None), ReferenceToken("b")>>)>>)
          ELSE RefDoc(None, <<ReferenceToken("b")>>)],
      \* a cycle that is met after a document was loaded
      [i \in {"a", "main"} |->
          IF i = "a" THEN LeafDoc("a")
          ELSE RefDoc(None, <<ReferenceToken("a"), ReferenceToken("main")>>)],
      \* no cycle: references that resolve, and one that does not
      [i \in {"b", "main"} |->
          IF i = "b" THEN RefDoc("b", <<LeafDoc(None)>>)
          ELSE RefDoc(None, <<ReferenceToken("b"), ReferenceToken("b"),
                              ReferenceToken("a")>>)],
      [i \in {"a", "b"} |->
          IF i = "a" THEN LeafDoc("a")
          ELSE RefDoc("b", <<ReferenceToken("a"), LeafDoc(None)>>)] }

InitCycle ==
    /\ storage_backend \in CyclePreloads
    /\ temporary_storage = EmptyDict
    /\ transaction_storage = TransactionNone
    /\ heap = UserHeap
    /\ registry = EmptyDict
    /\ held = 1..NUser
    /\ stack = <<>>
    /\ call = NoStoreCall
    /\ RegistryLoaded
    /\ filesystem = EmptyDict
    /\ zipfile = [root |-> NoFile, tmp |-> NoFile]
    /\ dict_cache = EmptyDict
    /\ caching = EmptyDict
    /\ ref = EmptyDict
    /\ last = NoCall
    /\ ZipIdle

NextCycle == Read \/ Remove \/ Clear \/ DecodeStep \/ DecodeFinish

SpecCycle ==
    InitCycle /\ [][NextCycle]_vars /\ WF_vars(DecodeStep) /\ WF_vars(DecodeFinish)

(***************************************************************************)
(* Claims on PulseStorage (SpecStore)                                      *)
(***************************************************************************)
\* the document of object o as it is now: json.dumps of its data, a nested object
\* with an identifier as its reference token, one without in place
RECURSIVE ExpectedDoc(_, _)
ExpectedDoc(h, o) ==
    SerializationData(h, o,
        [j \in DOMAIN h[o].kids |->
            IF h[h[o].kids[j]].identifier # None
            THEN ReferenceToken(h[h[o].kids[j]].identifier)
            ELSE ExpectedDoc(h, h[o].kids[j])])

\* an overwrite (called as such, or by __setitem__) is running
Overwriting == stack # <<>> /\ stack[1].kind = "overwrite"
\* a call has returned or raised
Over(op) == stack = <<>> /\ call.op = op

\* C6 (the claim as stated): while an overwrite runs, up to the return of the
\* outermost call, no document is put and the cache is not updated.
C6_NothingUntilFlush ==
    Overwriting => /\ storage_backend = call.backend0
                   /\ temporary_storage = call.cache0

\* C6 (amended): while an overwrite runs, no document is put; the cache keeps every
\* entry it had and gains only entries loaded from the backend (the document of an
\* identifier met while encoding, and the object decoded from it), never an entry
\* of the transaction; the transaction is active, the outermost call alone began
\* it, and every nested overwrite joined it.
C6_NoPutUntilFlush ==
    Overwriting =>
        /\ storage_backend = call.backend0
        /\ \A i \in DOMAIN call.cache0 :
              i \in DOMAIN temporary_storage /\ temporary_storage[i] = call.cache0[i]
        /\ \A i \in DOMAIN temporary_storage \ DOMAIN call.cache0 :
              /\ i \in DOMAIN storage_backend
              /\ temporary_storage[i].serialization = storage_backend[i]
              /\ temporary_storage[i].serializable > NUser
        /\ ~transaction_storage.isNone
        /\ \A j \in DOMAIN stack :
              stack[j].kind = "overwrite" => (stack[j].begin <=> j = 1)

\* C6 witness: a nested overwrite inside a nested overwrite is encoding, the
\* transaction holds an entry already, and nothing was put.
C6_Witness ==
    /\ Overwriting
    /\ Len(stack) = 3 /\ stack[2].kind = "overwrite" /\ Top.kind = "embed"
    /\ Len(transaction_storage.items) = 1
    /\ storage_backend = EmptyDict

\* C7: an overwrite that raised, in the outermost call or in a nested one, has put
\* no document: the backend is as the call found it.
C7_FailedOverwritePutsNothing ==
    (stack = <<>> /\ call.op \in {"overwrite", "write"} /\ call.exc # "ok")
        => storage_backend = call.backend0

\* C7 witness: encoding raised inside a nested overwrite, after two nested
\* overwrites had entered their documents into the transaction.
C7_Witness ==
    /\ Over("overwrite") /\ call.obj = 7 /\ call.exc = NotEncodable
    /\ call.backend0 # EmptyDict
    /\ transaction_storage.isNone

\* C8: write(id, entity) raises AlreadyBound when id is cached with another object
\* and when id is not cached and in the backend; after either, the backend and the
\* cache are as the call found them.
C8_WriteAlreadyBound ==
    Over("write") =>
        /\ (call.identifier \in DOMAIN call.cache0
                /\ call.cache0[call.identifier].serializable # call.obj)
              => call.exc = AlreadyBoundCached
        /\ (call.identifier \notin DOMAIN call.cache0
                /\ call.identifier \in DOMAIN call.backend0)
              => call.exc = AlreadyBoundBackend
        /\ call.exc \in {AlreadyBoundCached, AlreadyBoundBackend}
              => /\ storage_backend = call.backend0
                 /\ temporary_storage = call.cache0

\* C8 witness: write was refused for an identifier that only the backend holds.
C8_Witness ==
    /\ Over("write") /\ call.exc = AlreadyBoundBackend
    /\ call.identifier \notin DOMAIN temporary_storage
    /\ temporary_storage # EmptyDict

\* C9 (the claim as stated): write(id, entity) raises AlreadyBound, or does what
\* overwrite does: when it returns, the backend document of id is the
\* serialization of entity as it is now.
C9_WriteWritesOrFails ==
    (Over("write") /\ call.exc = "ok")
        => /\ call.identifier \in DOMAIN storage_backend
           /\ storage_backend[call.identifier] = ExpectedDoc(heap, call.obj)

\* C9 (amended): write(id, entity) has one of three outcomes.  With id cached for
\* another object, or not cached and in the backend, it raises AlreadyBound.  With
\* id cached for this same object it returns and has changed nothing: no document
\* is written.  Otherwise it does what overwrite does: when it returns, the
\* backend document of id is the serialization of entity as it is now and the
\* cache holds that document with entity.
C9_WriteThreeOutcomes ==
    Over("write") =>
        IF call.identifier \in DOMAIN call.cache0
        THEN IF call.cache0[call.identifier].serializable = call.obj
             THEN /\ call.exc = "ok"
                  /\ storage_backend = call.backend0
                  /\ temporary_storage = call.cache0
             ELSE call.exc = AlreadyBoundCached
        ELSE IF call.identifier \in DOMAIN call.backend0
        THEN call.exc = AlreadyBoundBackend
        ELSE call.exc = "ok"
                => /\ call.identifier \in DOMAIN storage_backend
                   /\ storage_backend[call.identifier] = ExpectedDoc(heap, call.obj)
                   /\ temporary_storage[call.identifier] =
                         StorageEntry(ExpectedDoc(heap, call.obj), call.obj)

\* C9 witness: write returned for an object that is cached under id and has
\* changed since its document was written.
C9_Witness ==
    /\ Over("write") /\ call.exc = "ok"
    /\ call.identifier \in DOMAIN call.cache0
    /\ storage_backend[call.identifier] # ExpectedDoc(heap, call.obj)

\* C10 (the claim as stated): inside a transaction no overwrite is entered for an
\* object whose identifier the transaction holds for another object: the encoder
\* raises instead, and the entry of the first object is never replaced.
C10_ConflictInTransaction ==
    \A j \in DOMAIN stack :
        stack[j].kind = "overwrite" =>
            \A t \in DOMAIN transaction_storage.items :
                transaction_storage.items[t].identifier = stack[j].identifier
                    => transaction_storage.items[t].entry.serializable = stack[j].obj

\* an overwrite has returned: called as such, or by a __setitem__ that found the
\* identifier neither cached nor stored
OverwriteDone ==
    /\ stack = <<>> /\ call.exc = "ok"
    /\ \/ call.op = "overwrite"
       \/ call.op = "write" /\ call.identifier \notin DOMAIN call.cache0

\* every object nested in o, at any depth
AllNested(h, o) == Reach(h, SeqRange(h[o].kids))

\* the nested objects the encoder meets while it encodes o: the encoder goes into an
\* object without identifier and into one whose identifier is not in the storage
RECURSIVE NestedMet(_, _, _)
NestedMet(h, o, stored) ==
    UNION {{k} \cup (IF h[k].identifier = None \/ h[k].identifier \notin stored
                     THEN NestedMet(h, k, stored) ELSE {})
           : k \in SeqRange(h[o].kids)}

Stored0 == DOMAIN call.cache0 \cup DOMAIN call.backend0

SharingSaved ==
    /\ OverwriteDone
    /\ Len(heap[call.obj].kids) = 2
    /\ heap[call.obj].kids[1] = heap[call.obj].kids[2]
    /\ heap[heap[call.obj].kids[1]].identifier \notin {None, call.identifier}
    /\ heap[heap[call.obj].kids[1]].identifier \notin DOMAIN call.backend0
    /\ heap[heap[call.obj].kids[1]].kids = <<>>

\* C12: overwriting A, which holds the unstored B twice, under key k adds the
\* documents of k and of B's identifier and no other (two documents, k being new),
\* leaves every other document as it was, and A's document holds two reference
\* tokens that name B's identifier, no copy of B.
C12_SharingOnSave ==
    SharingSaved =>
        LET k == call.identifier
            b == heap[call.obj].kids[1]
            i == heap[b].identifier
        IN  /\ DOMAIN storage_backend = DOMAIN call.backend0 \cup {k, i}
            /\ k \notin DOMAIN call.backend0
                  => Cardinality(DOMAIN storage_backend \ DOMAIN call.backend0) = 2
            /\ \A x \in DOMAIN call.backend0 \ {k} : storage_backend[x] = call.backend0[x]
            /\ storage_backend[i] = ExpectedDoc(heap, b)
            /\ Len(storage_backend[k].kids) = 2
            /\ \A j \in 1..2 : /\ storage_backend[k].kids[j].type = "reference"
                                /\ storage_backend[k].kids[j].identifier = i
                                /\ DOMAIN storage_backend[k].kids[j] = {"type", "identifier"}

\* C12 witness: A was stored under a new key next to a document stored before,
\* and B's document is new.
C12_Witness ==
    /\ SharingSaved
    /\ call.backend0 # EmptyDict
    /\ call.identifier \notin DOMAIN call.backend0
    /\ Cardinality(DOMAIN storage_backend) = 3

\* how often the running or last call has loaded the document of identifier
Loads(identifier) == Cardinality({j \in DOMAIN call.loads : call.loads[j] = identifier})

\* the reference tokens of a document
References(doc) == {j \in DOMAIN doc.kids : doc.kids[j].type = "reference"}

\* a read has returned the object decoded from a document that was not cached and
\* holds two reference tokens, at places p and q, that name the same identifier
SharingLoaded(p, q) ==
    /\ Over("read") /\ call.exc = "ok"
    /\ call.identifier \notin DOMAIN call.cache0
    /\ {p, q} \subseteq References(call.backend0[call.identifier])
    /\ p # q
    /\ call.backend0[call.identifier].kids[p].identifier =
          call.backend0[call.identifier].kids[q].identifier

\* C13: a call loads no document twice; the object decoded from a document with
\* two reference tokens that name the same identifier holds one and the same
\* object at both places, the object of the cache entry of that identifier.
C13_SharingOnLoad ==
    /\ \A i \in Keys : Loads(i) <= 1
    /\ \A p, q \in 1..2 :
          SharingLoaded(p, q) =>
              LET i == call.backend0[call.identifier].kids[p].identifier
              IN  /\ heap[call.val].kids[p] = heap[call.val].kids[q]
                  /\ i \in DOMAIN temporary_storage
                  /\ temporary_storage[i].serializable = heap[call.val].kids[p]
                  /\ temporary_storage[call.identifier].serializable = call.val

\* C13 witness: the read loaded the document and, once, the one its two reference
\* tokens name.
C13_Witness ==
    /\ SharingLoaded(1, 2)
    /\ call.loads = <<call.identifier, call.backend0[call.identifier].kids[1].identifier>>
    /\ heap[call.val].kids[1] > NUser

\* C14: when write(X, e) or overwrite(X, e) has returned, the cache holds e under X;
\* a read of a cached identifier returns the object of its cache entry and loads
\* no document; and the object of a cache entry changes or goes only with
\* remove(X), clear() or overwrite(X, other).
C14_CachedInstanceStays ==
    /\ [](/\ (stack = <<>> /\ call.op \in {"write", "overwrite"} /\ call.exc = "ok")
               => /\ call.identifier \in DOMAIN temporary_storage
                  /\ temporary_storage[call.identifier].serializable = call.obj
          /\ (Over("read") /\ call.identifier \in DOMAIN call.cache0)
               => /\ call.exc = "ok"
                  /\ call.val = call.cache0[call.identifier].serializable
                  /\ call.loads = <<>>
                  /\ temporary_storage = call.cache0)
    /\ [][\A X \in DOMAIN temporary_storage :
             \/ /\ X \in DOMAIN temporary_storage'
                /\ temporary_storage'[X].serializable = temporary_storage[X].serializable
             \/ call'.op = "remove" /\ call'.identifier = X
             \/ call'.op = "clear"
             \/ call'.op = "overwrite" /\ call'.identifier = X /\ call'.exc = "ok"]_vars

\* C14 witness: a read returned the object written under X, after an overwrite of
\* another key that holds this object.
C14_Witness ==
    /\ Over("read") /\ call.identifier = "a" /\ call.val = 1
    /\ "main" \in DOMAIN temporary_storage
    /\ "a" \in DOMAIN call.cache0

\* every reference token of the document, and of the documents they name, names a
\* document of the backend
RECURSIVE Resolves(_, _)
Resolves(backend, doc) ==
    \A j \in DOMAIN doc.kids :
        IF doc.kids[j].type = "reference"
        THEN /\ doc.kids[j].identifier \in DOMAIN backend
             /\ Resolves(backend, backend[doc.kids[j].identifier])
        ELSE Resolves(backend, doc.kids[j])

\* object o has the fields of the document, its nested objects those of the nested
\* documents and of the documents the reference tokens name
RECURSIVE FieldEqual(_, _, _, _)
FieldEqual(h, o, backend, doc) ==
    /\ o \in DOMAIN h
    /\ h[o].type = doc.type
    /\ h[o].identifier = doc.identifier
    /\ h[o].val = doc.val
    /\ Len(h[o].kids) = Len(doc.kids)
    /\ \A j \in DOMAIN doc.kids :
          FieldEqual(h, h[o].kids[j], backend,
                     IF doc.kids[j].type = "reference"
                     THEN backend[doc.kids[j].identifier]
                     ELSE doc.kids[j])

\* C15 (the claim as stated): a read of an identifier that is stored, the cache
\* being empty (written, then dropped from the cache by clear()), returns an object that is
\* field-equal to what was written, whether or not the object that was written is
\* alive and registered under the identifier in default_pulse_registry.
C15_UncachedReadBack ==
    (/\ Over("read")
     /\ call.cache0 = EmptyDict
     /\ call.identifier \in DOMAIN call.backend0
     /\ Resolves(call.backend0, call.backend0[call.identifier]))
        => /\ call.exc = "ok"
           /\ FieldEqual(heap, call.val, call.backend0, call.backend0[call.identifier])

\* C16 (the claim as stated): remove(id) of an identifier the backend does not hold
\* returns without error and changes nothing.
C16_RemoveAbsentTolerated ==
    (Over("remove") /\ call.identifier \notin DOMAIN call.backend0)
        => /\ call.exc = "ok"
           /\ storage_backend = call.backend0
           /\ temporary_storage = call.cache0

\* C16 (amended): remove(id) of an identifier the backend does not hold raises
\* NotFound (KeyError) and changes nothing; what is tolerated is an identifier the
\* backend holds and the cache does not: that remove returns without error.
C16_RemoveAbsentRaises ==
    Over("remove") =>
        IF call.identifier \notin DOMAIN call.backend0
        THEN /\ call.exc = NotFound
             /\ storage_backend = call.backend0
             /\ temporary_storage = call.cache0
        ELSE call.exc = "ok"

\* C16 witness: a remove of an identifier that was removed before raised, other
\* documents being stored and cached.
C16_Witness ==
    /\ Over("remove") /\ call.exc = NotFound
    /\ call.identifier \notin DOMAIN storage_backend
    /\ temporary_storage # EmptyDict

\* C17: when remove(id) has returned, id is neither stored nor cached and every
\* other document and cache entry is as before; a read of an identifier that is
\* neither stored nor cached raises NotFound and changes nothing; and such an
\* identifier stays so until an overwrite or write that returns stores it.
C17_RemovedIsGone ==
    /\ []((Over("remove") /\ call.exc = "ok")
            => /\ call.identifier \in DOMAIN call.backend0
               /\ ~PulseStorage_contains(temporary_storage, storage_backend,
                                          call.identifier)
               /\ storage_backend = DelItem(call.backend0, call.identifier)
               /\ temporary_storage =
                     [i \in DOMAIN call.cache0 \ {call.identifier} |-> call.cache0[i]])
    /\ []((/\ Over("read")
           /\ ~PulseStorage_contains(call.cache0, call.backend0, call.identifier))
            => /\ call.exc = NotFound
               /\ storage_backend = call.backend0
               /\ temporary_storage = call.cache0)
    /\ [][\A i \in Keys :
             (/\ ~PulseStorage_contains(temporary_storage, storage_backend, i)
              /\ PulseStorage_contains(temporary_storage', storage_backend', i))
                 => /\ call'.op \in {"overwrite", "write"}
                    /\ call'.exc = "ok"
                    /\ stack' = <<>>
                    /\ i \in DOMAIN storage_backend']_vars

\* C17 witness: a read raised NotFound for the identifier of a document that was
\* stored and removed, the document that refers to it being stored and cached still.
C17_Witness ==
    /\ Over("read") /\ call.exc = NotFound
    /\ call.identifier = "a"
    /\ "main" \in DOMAIN temporary_storage
    /\ "main" \in DOMAIN storage_backend

\* the exceptions of identifiers that are taken
Conflicts == {DuplicateIdentifier, AlreadyBoundCached, AlreadyBoundBackend}

\* C21: while the storage is installed as default registry, a read of a stored
\* identifier that is not cached never raises 'Pulse with name already exists' nor
\* 'Identifier assigned twice' / 'already assigned in storage backend', and returns
\* wherever every reference token of the document resolves; no object the decoder
\* constructed is registered in the WeakValueDictionary, nothing is put to the
\* backend, the document of the identifier is loaded once, and the cache gains the
\* entries of the loaded identifiers and no other, the one of the identifier being
\* the document with the object returned.
C21_ReadUnderDefaultStorage ==
    (/\ Over("read")
     /\ default_pulse_registry = Self
     /\ call.identifier \in DOMAIN call.backend0
     /\ call.identifier \notin DOMAIN call.cache0)
        => /\ call.exc \notin Conflicts
           /\ Resolves(call.backend0, call.backend0[call.identifier]) => call.exc = "ok"
           /\ \A i \in DOMAIN registry : registry[i] \in 1..NUser
           /\ storage_backend = call.backend0
           /\ call.exc = "ok" =>
                 /\ Loads(call.identifier) = 1
                 /\ DOMAIN temporary_storage = DOMAIN call.cache0 \cup SeqRange(call.loads)
                 /\ temporary_storage[call.identifier]
                        = StorageEntry(call.backend0[call.identifier], call.val)
                 /\ \A i \in DOMAIN call.cache0 : temporary_storage[i] = call.cache0[i]

\* C21 witness: the storage is the default registry, the object written under "a" is
\* alive and registered under "a" in the WeakValueDictionary, and a read of "a" with
\* the cache cleared returned another object.
C21_Witness ==
    /\ Over("read") /\ call.exc = "ok"
    /\ default_pulse_registry = Self
    /\ call.identifier = "a"
    /\ call.cache0 = EmptyDict
    /\ "a" \in DOMAIN registry /\ registry["a"] \in DOMAIN heap
    /\ call.val \notin 1..NUser

\* the document, or a document embedded in it, holds a reference token that names an
\* identifier which is neither cached nor stored
RECURSIVE Dangles(_, _, _)
Dangles(temp, backend, doc) ==
    \E j \in DOMAIN doc.kids :
        IF doc.kids[j].type = "reference"
        THEN /\ doc.kids[j].identifier \notin DOMAIN temp
             /\ doc.kids[j].identifier \notin DOMAIN backend
        ELSE Dangles(temp, backend, doc.kids[j])

\* the error the claim names: one of its own kind, which is not NotFound
DanglingReference == "DanglingReference"

Graph(h, e) == Reach(h, {e})

\* no two objects of the graph of e carry the same identifier, and none but e the
\* key e is stored under
UniqueIdentifiers(h, e, key) ==
    /\ \A x, y \in Graph(h, e) :
          (x # y /\ h[x].identifier # None) => h[x].identifier # h[y].identifier
    /\ \A x \in Graph(h, e) \ {e} : h[x].identifier # key
    /\ h[e].identifier \in {None, key}

\* the backend holds the serialization of the graph of e as it is now: the document
\* of e under key, the document of every nested object with an identifier under
\* that identifier
Encoded(h, e, key, backend) ==
    /\ key \in DOMAIN backend
    /\ backend[key] = ExpectedDoc(h, e)
    /\ \A x \in Graph(h, e) \ {e} :
          h[x].identifier # None
              => /\ h[x].identifier \in DOMAIN backend
                 /\ backend[h[x].identifier] = ExpectedDoc(h, x)

\* objects p and q are equal field for field, and so are their nested objects
RECURSIVE GraphEqual(_, _, _)
GraphEqual(h, p, q) ==
    /\ p \in DOMAIN h /\ q \in DOMAIN h
    /\ h[p].type = h[q].type
    /\ h[p].identifier = h[q].identifier
    /\ h[p].val = h[q].val
    /\ Len(h[p].kids) = Len(h[q].kids)
    /\ \A j \in DOMAIN h[p].kids : GraphEqual(h, h[p].kids[j], h[q].kids[j])

\* C24 (the claim as stated): an object graph without two objects of one identifier
\* that is written to an empty storage leaves the backend with the serialization of
\* the graph; and a read of the key from an empty cache, the backend holding the
\* serialization of the graph as it is now, returns an object whose graph is equal
\* to it field for field.
C24_RoundTrip ==
    /\ (/\ stack = <<>> /\ call.op \in {"write", "overwrite"} /\ call.exc = "ok"
        /\ call.backend0 = EmptyDict /\ call.cache0 = EmptyDict
        /\ UniqueIdentifiers(heap, call.obj, call.identifier))
           => Encoded(heap, call.obj, call.identifier, storage_backend)
    /\ (/\ Over("read")
        /\ call.cache0 = EmptyDict
        /\ call.identifier \in DOMAIN call.backend0)
           => \A st \in Stores :
                  (/\ st[1] = call.identifier
                   /\ UniqueIdentifiers(heap, st[2], st[1])
                   /\ Encoded(heap, st[2], st[1], call.backend0))
                      => /\ call.exc = "ok"
                         /\ GraphEqual(heap, call.val, st[2])

\* C25: when a put of the flush raises, the exception ends the call the program made
\* (an overwrite or a write); the backend is the one the call found with the
\* documents of the puts before the failing one, in the order of the transaction;
\* the cache is as the call found it, with no pair of the transaction; and the
\* transaction is over.
C25_FailedFlushKeepsPuts ==
    (stack = <<>> /\ call.exc = PutFailed)
        => /\ call.op \in {"overwrite", "write"}
           /\ call.put < Len(call.items)
           /\ storage_backend = FlushItems(call.backend0, SubSeq(call.items, 1, call.put))
           /\ \A j \in 1..call.put :
                 /\ call.items[j].identifier \in DOMAIN storage_backend
                 /\ call.items[j].identifier \notin DOMAIN temporary_storage
           /\ temporary_storage = call.cache0
           /\ transaction_storage.isNone

\* C25 witness: the overwrite of "b" put the document of the nested "a", the put of
\* "b" raised: "a" is stored and not cached, "b" is not stored.
C25_Witness ==
    /\ Over("overwrite") /\ call.exc = PutFailed
    /\ call.identifier = "b"
    /\ Len(call.items) = 2 /\ call.put = 1
    /\ "a" \in DOMAIN storage_backend \ DOMAIN call.backend0
    /\ "a" \notin DOMAIN temporary_storage
    /\ "b" \notin DOMAIN storage_backend

\* an overwrite is in progress: a frame of the stack is a call of overwrite
OverwriteInProgress == \E j \in DOMAIN stack : stack[j].kind = "overwrite"

\* the identifiers whose document is not the one the call found
Changed == {i \in DOMAIN storage_backend :
               i \notin DOMAIN call.backend0 \/ storage_backend[i] # call.backend0[i]}

\* C27: while no overwrite is in progress, _transaction_storage is None, whatever
\* calls have failed before, in the encoder, in a nested overwrite or in the flush;
\* and a call of overwrite or write that has ended, with or without error, has
\* changed no document but that of its key and those of the identifiers of the
\* objects nested in the object it was given, each to the serialization of an
\* object of this graph.
C27_NoTransactionLeft ==
    /\ ~OverwriteInProgress => transaction_storage.isNone
    /\ (stack = <<>> /\ call.op \in {"overwrite", "write"})
           => \A i \in Changed :
                 \E x \in Graph(heap, call.obj) :
                     /\ i = call.identifier \/ i = heap[x].identifier
                     /\ storage_backend[i] = ExpectedDoc(heap, x)

\* C27 witness: a write has failed inside a nested overwrite, after nested
\* overwrites had entered pairs into the transaction; nothing is stored and no
\* transaction is left.
C27_Witness ==
    /\ Over("write") /\ call.obj = 7 /\ call.exc = NotEncodable
    /\ storage_backend = EmptyDict
    /\ transaction_storage.isNone

\* the reference tokens of the document lead back to it
RECURSIVE Tokens(_)
Tokens(doc) ==
    UNION {IF doc.kids[j].type = "reference" THEN {doc.kids[j].identifier}
           ELSE Tokens(doc.kids[j]) : j \in DOMAIN doc.kids}

RECURSIVE Referred(_, _)
Referred(backend, ids) ==
    LET more == ids \cup UNION {Tokens(backend[i]) : i \in ids \cap DOMAIN backend}
    IN  IF more = ids THEN ids ELSE Referred(backend, more)

Cyclic(backend, identifier) ==
    \E i \in Referred(backend, {identifier}) \cap DOMAIN backend :
        i \in Referred(backend, Tokens(backend[i]))

MaxAlive == 2
\* the depth to which the program nests the scopes of as_default_registry
MaxScopes == 2

\* the identifier the program's objects compete for (None: an object without)
Names == {"a", None}

\* the mapping of a registry
Mapping(reg, regs, r) == IF r = WeakRegistry THEN reg ELSE regs[r]

\* the objects something refers to: the program, a dict or a PulseStorage
Live(hld, regs) ==
    hld \cup UNION {{regs[r][i] : i \in DOMAIN regs[r]} : r \in StrongRegistries}

\* the heap and the WeakValueDictionary once the objects gone are collected
Collected(h, gone) == [o \in DOMAIN h \ gone |-> h[o]]
Dropped(reg, gone) == [i \in {x \in DOMAIN reg : reg[x] \notin gone} |-> reg[i]]

\* mutant of Serializable_register_gc: the identifier is bound without a look at
\* the registry
Serializable_register_gc_unchecked(mapping, live, identifier, o) ==
    IF identifier = None
    THEN [mapping |-> mapping, exc |-> "ok", collected |-> FALSE]
    ELSE [mapping |-> SetItem(mapping, identifier, o), exc |-> "ok", collected |-> FALSE]

\* mutant of Serializable_register_gc: no garbage collection before the conflict
\* is declared
Serializable_register_gc_no_collect(mapping, live, identifier, o) ==
    IF identifier = None
    THEN [mapping |-> mapping, exc |-> "ok", collected |-> FALSE]
    ELSE IF identifier \in DOMAIN mapping
    THEN [mapping |-> mapping, exc |-> DuplicateIdentifier, collected |-> FALSE]
    ELSE [mapping |-> SetItem(mapping, identifier, o), exc |-> "ok", collected |-> FALSE]

\* Serializable._register, lines 377-385, in a heap that can hold objects nothing
\* refers to: gc.collect(2) (line 380) runs when the identifier is found, and the
\* entry of an object that is not live is gone at the second look (line 382)
Serializable_register_gc(mapping, live, identifier, o) ==
    IF identifier = None
    THEN [mapping |-> mapping, exc |-> "ok", collected |-> FALSE]
    ELSE IF identifier \in DOMAIN mapping
    THEN IF mapping[identifier] \in live
         THEN [mapping |-> mapping, exc |-> DuplicateIdentifier, collected |-> TRUE]
         ELSE [mapping |-> SetItem(mapping, identifier, o), exc |-> "ok",
               collected |-> TRUE]
    ELSE [mapping |-> SetItem(mapping, identifier, o), exc |-> "ok", collected |-> FALSE]

\* an object without nested objects, and a record of the registry it registered in
RegisteredObj(identifier, r) ==
    [f \in DOMAIN Obj("Pulse", identifier, 0, <<>>, TRUE) \cup {"registry"} |->
        IF f = "registry" THEN r ELSE Obj("Pulse", identifier, 0, <<>>, TRUE)[f]]

\* line 374-375: the registry an object registers in
Target(registry_argument) ==
    IF registry_argument = None THEN default_pulse_registry ELSE registry_argument

\* what _register finds under the identifier
Found(identifier, r) ==
    IF identifier = None \/ identifier \notin DOMAIN Mapping(registry, registries, r)
    THEN "nothing"
    ELSE IF Mapping(registry, registries, r)[identifier] \in Live(held, registries)
    THEN "live"
    ELSE "stale"

NoRegistryCall ==
    [op |-> "none", identifier |-> None, target |-> None, exc |-> "ok", val |-> NoObj,
     found |-> "nothing", entered |-> None]

RegistryCall(op, identifier, target, exc, val, found, entered) ==
    [op |-> op, identifier |-> identifier, target |-> target, exc |-> exc, val |-> val,
     found |-> found, entered |-> entered]

\* the part of the state SpecRegistry leaves alone
RegistryFrame ==
    /\ UNCHANGED <<storage_backend, temporary_storage, transaction_storage>>
    /\ UNCHANGED <<filesystem, zipfile, dict_cache, caching, ref, last, zpc, zcall, zhalt>>

InitRegistry ==
    /\ RegistryLoaded
    /\ heap = EmptyDict
    /\ registry = EmptyDict
    /\ held = {}
    /\ stack = <<>>
    /\ call = NoRegistryCall
    /\ storage_backend = EmptyDict
    /\ temporary_storage = EmptyDict
    /\ transaction_storage = TransactionNone
    /\ filesystem = EmptyDict
    /\ zipfile = [root |-> NoFile, tmp |-> NoFile]
    /\ dict_cache = EmptyDict
    /\ caching = EmptyDict
    /\ ref = EmptyDict
    /\ last = NoCall
    /\ ZipIdle

\* the place of the heap a new object takes
FreePlace(h) == CHOOSE n \in 1..MaxAlive :
                    /\ n \notin DOMAIN h
                    /\ \A m \in 1..MaxAlive : m < n => m \in DOMAIN h

\* the program constructs a Serializable: cls(identifier=..., registry=...), whose
\* __init__ calls _register(registry).  When _register raises, the object is gone
\* with the constructor's frame.
Construct ==
    /\ \E n \in 1..MaxAlive : n \notin DOMAIN heap
    /\ \E identifier \in Names, registry_argument \in {None, "dict"} :
          LET r == Target(registry_argument)
              n == FreePlace(heap)
              did == Serializable_register_gc(Mapping(registry, registries, r),
                                              Live(held, registries), identifier, n)
              gone == IF did.collected THEN DOMAIN heap \ Live(held, registries) ELSE {}
              found == Found(identifier, r)
          IN  IF did.exc # "ok"
              THEN /\ heap' = Collected(heap, gone)
                   /\ registry' = Dropped(registry, gone)
                   /\ UNCHANGED <<held, registries>>
                   /\ call' = RegistryCall("construct", identifier, r, did.exc, NoObj,
                                           found, None)
              ELSE /\ heap' = [o \in (DOMAIN heap \ gone) \cup {n} |->
                                  IF o = n
                                  THEN RegisteredObj(identifier,
                                                     IF identifier = None THEN None ELSE r)
                                  ELSE heap[o]]
                   /\ held' = held \cup {n}
                   /\ registry' = Dropped(IF r = WeakRegistry THEN did.mapping
                                          ELSE registry, gone)
                   /\ registries' = IF r = WeakRegistry THEN registries
                                    ELSE [registries EXCEPT ![r] = did.mapping]
                   /\ call' = RegistryCall("construct", identifier, r, "ok", n, found, None)
    /\ UNCHANGED <<stack, default_pulse_registry>>
    /\ RegistryFrame

\* the program drops its reference to an object
Drop ==
    /\ \E o \in held :
          /\ held' = held \ {o}
          /\ call' = RegistryCall("drop", None, None, "ok", NoObj, "nothing", None)
    /\ UNCHANGED <<heap, registry, stack, default_pulse_registry, registries>>
    /\ RegistryFrame

\* an object nothing refers to is freed, by its reference count or by the garbage
\* collector; the WeakValueDictionary drops its entry
Collect ==
    /\ \E o \in DOMAIN heap \ Live(held, registries) :
          /\ heap' = Collected(heap, {o})
          /\ registry' = Dropped(registry, {o})
          /\ call' = RegistryCall("collect", None, None, "ok", NoObj, "nothing", None)
    /\ UNCHANGED <<held, stack, default_pulse_registry, registries>>
    /\ RegistryFrame

\* mutant of as_default_registry_finally: the registry is put back where the scope
\* is left without an error only
as_default_registry_no_finally(previous_registry, installed, error) ==
    IF error THEN installed ELSE previous_registry

\* PulseStorage.as_default_registry, lines 731-732: what default_pulse_registry is
\* when the scope is left, with an error raised inside it or without
as_default_registry_finally(previous_registry, installed, error) == previous_registry

\* PulseStorage.as_default_registry, lines 726-730: the scope is entered
EnterScope ==
    /\ Len(stack) < MaxScopes
    /\ \E s \in Storages :
          /\ stack' = Append(stack, [kind |-> "scope", storage |-> s,
                                     previous_registry |-> default_pulse_registry,
                                     entered |-> default_pulse_registry])
          /\ default_pulse_registry' = s
          /\ call' = RegistryCall("enter", None, s, "ok", NoObj, "nothing",
                                  default_pulse_registry)
    /\ UNCHANGED <<heap, registry, held, registries>>
    /\ RegistryFrame

\* the innermost scope is left, by the end of its block or by an error raised in it
ExitScope ==
    /\ stack # <<>>
    /\ \E error \in BOOLEAN :
          /\ default_pulse_registry' =
                as_default_registry_finally(Top.previous_registry,
                                            default_pulse_registry, error)
          /\ call' = RegistryCall("exit", None, Top.storage,
                                  IF error THEN "error" ELSE "ok", NoObj, "nothing",
                                  Top.entered)
    /\ stack' = Pop(stack)
    /\ UNCHANGED <<heap, registry, held, registries>>
    /\ RegistryFrame

\* PulseStorage.set_to_default_registry
SetToDefault ==
    /\ \E s \in Storages :
          /\ default_pulse_registry' = s
          /\ call' = RegistryCall("set", None, s, "ok", NoObj, "nothing", None)
    /\ UNCHANGED <<heap, registry, held, stack, registries>>
    /\ RegistryFrame

NextRegistry ==
    \/ Construct \/ Drop \/ Collect \/ EnterScope \/ ExitScope \/ SetToDefault

SpecRegistry == InitRegistry /\ [][NextRegistry]_vars

(***************************************************************************)
(* Claims on the registry (SpecRegistry)                                   *)
(***************************************************************************)
\* a step in which a constructor registers under an identifier
Registers == call'.op = "construct" /\ call'.identifier # None

\* the objects alive that registered under identifier in registry r
RegisteredAlive(identifier, r) ==
    {o \in DOMAIN heap \cap Live(held, registries) :
        heap[o].identifier = identifier /\ heap[o].registry = r}

\* C18: a constructor whose identifier the registry maps to an object that is
\* alive raises DuplicateIdentifier, the registry maps the identifier to that
\* object still and no object is added; hence no two objects alive have registered
\* under one identifier in one registry, and the one that has is the registry's.
C18_DuplicateRejected ==
    /\ [][(/\ Registers
            /\ call'.identifier \in DOMAIN Mapping(registry, registries, call'.target)
            /\ Mapping(registry, registries, call'.target)[call'.identifier]
                  \in Live(held, registries))
              => /\ call'.exc = DuplicateIdentifier
                 /\ call'.identifier
                       \in DOMAIN Mapping(registry', registries', call'.target)
                 /\ Mapping(registry', registries', call'.target)[call'.identifier] =
                       Mapping(registry, registries, call'.target)[call'.identifier]
                 /\ registries' = registries
                 /\ DOMAIN heap' \subseteq DOMAIN heap
                 /\ held' = held]_vars
    /\ [](\A identifier \in Names \ {None}, r \in {WeakRegistry} \cup StrongRegistries :
             /\ Cardinality(RegisteredAlive(identifier, r)) <= 1
             /\ \A o \in RegisteredAlive(identifier, r) :
                   /\ identifier \in DOMAIN Mapping(registry, registries, r)
                   /\ Mapping(registry, registries, r)[identifier] = o)

\* C18 witness: a constructor raised DuplicateIdentifier in the WeakValueDictionary
\* for an identifier whose object the program holds.
C18_Witness ==
    /\ call.op = "construct" /\ call.exc = DuplicateIdentifier
    /\ call.target = WeakRegistry
    /\ call.found = "live"
    /\ call.identifier \in DOMAIN registry
    /\ registry[call.identifier] \in held
    /\ stack = <<>>

\* C19: a constructor whose identifier the registry maps to an object nothing refers
\* to any more, not collected yet, returns, and the registry maps the identifier
\* to the new object; DuplicateIdentifier is raised for an object alive only.
C19_StaleEntryNoConflict ==
    /\ [][(/\ Registers
            /\ call'.identifier \in DOMAIN Mapping(registry, registries, call'.target)
            /\ Mapping(registry, registries, call'.target)[call'.identifier]
                  \notin Live(held, registries))
              => /\ call'.exc = "ok"
                 /\ call'.val \in DOMAIN heap' /\ call'.val \in held'
                 /\ heap'[call'.val].identifier = call'.identifier
                 /\ call'.identifier
                       \in DOMAIN Mapping(registry', registries', call'.target)
                 /\ Mapping(registry', registries', call'.target)[call'.identifier] =
                       call'.val
                 /\ Mapping(registry, registries, call'.target)[call'.identifier]
                       \notin DOMAIN heap' \ {call'.val}]_vars
    /\ [][(Registers /\ call'.exc = DuplicateIdentifier)
              => /\ call'.identifier \in DOMAIN Mapping(registry, registries, call'.target)
                 /\ Mapping(registry, registries, call'.target)[call'.identifier]
                       \in Live(held, registries)]_vars

\* C19 witness: a constructor found the entry of an object that was dropped and
\* not collected, and registered its object.
C19_Witness ==
    /\ call.op = "construct" /\ call.found = "stale" /\ call.exc = "ok"
    /\ registry[call.identifier] = call.val

\* C20: when a scope of as_default_registry has been left, by the end of its
\* block or by an error, default_pulse_registry is the registry that was
\* installed when that scope was entered, whatever was installed inside it; the
\* scopes are left innermost first, so nested scopes restore in that order.
C20_ScopeRestores ==
    /\ [](call.op = "exit" => default_pulse_registry = call.entered)
    /\ [][call'.op = "exit"
              => /\ stack # <<>>
                 /\ stack' = Pop(stack)
                 /\ default_pulse_registry' = stack[Len(stack)].entered]_vars

\* C20 witness: an inner scope was left by an error while another registry than
\* its own was installed, an outer scope being open, and the storage of the outer
\* scope is installed again.
C20_Witness ==
    /\ call.op = "exit" /\ call.exc = "error"
    /\ Len(stack) = 1
    /\ default_pulse_registry = stack[1].storage
    /\ call.target # stack[1].storage

====
